---- MODULE Spec2Model ----
(***************************************************************************)
(* PiRacer: Chudnovsky binary-splitting evaluator, precision planner,      *)
(* final assembly, fixed-point formatter and self-test.                    *)
(*                                                                         *)
(* Exact integers (mpz_class) are sequences of limbs, least significant    *)
(* first, with no leading zero limb, paired with a sign; two integers are  *)
(* bit-identical iff the two records are equal.  Floating values (mpfr_t)  *)
(* are a mantissa of exactly prec bits and a binary exponent, every        *)
(* operation rounding to nearest, ties to even.                            *)
(***************************************************************************)
EXTENDS Integers, Sequences, FiniteSets, TLC

VARIABLES
    pc,           \* "idle", "seq" (inside bsplit_chudnovsky), "par" (inside the chunk
                  \* loop), "evaluated", "st_ref", "st_got" (inside self_test), "done"
    entry,        \* the entry point that was called
    a0, b0,       \* the range [a0, b0) handed to the evaluator
    num_threads,  \* the worker count W
    prog,         \* the caller's Progress: present (non-null), done, total, tick (non-null)
    ticks,        \* the (done, total) pairs handed to prog->tick, in call order
    visited,      \* the leaf indices evaluated, in evaluation order
    stack,        \* the frames of the reporting bsplit_impl, innermost last
    ret,          \* <<>> or <<t>>: the triplet returned by the call that just ended
    result,       \* the accumulator of the chunk loop
    chunk_start,  \* the loop variable of the chunk loop
    chunk_size,
    digits, base, \* the arguments of compute_pi*
    prec_bits,    \* the planned precision
    out,          \* <<>> or the returned string, a sequence of characters
    fmt,          \* the formatter's direct call: its input and its returned string
    st,           \* self_test: expected, got, the verdict ok and the message
    cli,          \* main: argv, the parsed options, the three streams, the exit code
    pool,         \* ThreadPool: the task queue, the workers and the caller of wait_all
    ckpt,         \* the checkpoint: the data saved, the file and the validation verdict
    tracker       \* ProgressTracker: its counters, its callbacks and the calls it made

evVars  == <<a0, b0, num_threads, prog, ticks, visited, stack, ret, result,
             chunk_start, chunk_size>>
engVars == <<digits, base, prec_bits, out, st>>
auxVars == <<cli, pool, ckpt, tracker>>
vars    == <<pc, entry, evVars, engVars, fmt, auxVars>>

(***************************************************************************)
(* Natural numbers of arbitrary size (the magnitude of an mpz_class).      *)
(* Carries are resolved positionally, sums by splitting the range, and     *)
(* quotients and roots by doubling the precision, so that no operator      *)
(* recurses once per limb.  Every operator first tests its arguments,      *)
(* which evaluates them before the work on them starts.                    *)
(***************************************************************************)
Base == 1000

Limb(x, i) == IF i <= Len(x) THEN x[i] ELSE 0

\* x without its leading zero limbs
NatNorm(x) ==
    LET xlen == Len(x)
        drop == CHOOSE nd \in 0..xlen :
                    /\ nd = xlen \/ x[xlen - nd] # 0
                    /\ \A ne \in 0..(nd - 1) : x[xlen - ne] = 0
    IN  SubSeq(x, 1, xlen - drop)

\* 0 <= n < 2^31
NatFromInt(n) ==
    NatNorm(<<n % Base, (n \div Base) % Base, (n \div (Base * Base)) % Base,
              n \div (Base * Base * Base)>>)

\* x < 2^31 as a machine integer
NatToInt(x) ==
    Limb(x, 1) + Base * Limb(x, 2) + Base * Base * Limb(x, 3)

\* the number of bits of the machine integer 0 <= n < 2^30
BitsOfInt(n) == CHOOSE ik \in 0..30 : n < 2^ik /\ (ik = 0 \/ n >= 2^(ik - 1))

\* x * Base^k
Shift(x, k) == IF x = <<>> THEN x ELSE [sp \in 1..k |-> 0] \o x

\* the limbs of x from position k up: x \div Base^(k-1)
HighLimbs(x, k) == IF k > Len(x) THEN <<>> ELSE SubSeq(x, k, Len(x))

\* the carry into a position comes from the nearest lower position that
\* does not hold Base - 1, if that one overflows
\* araw holds the sums of the limbs, position by position
AddCarryFrom(araw, ai, aback) ==
    IF aback < ai /\ araw[ai - aback] >= Base THEN 1 ELSE 0

AddCarry(araw, ai) ==
    AddCarryFrom(araw, ai,
                 CHOOSE ad \in 1..ai :
                     /\ ad = ai \/ araw[ai - ad] # Base - 1
                     /\ \A ae \in 1..(ad - 1) : araw[ai - ae] = Base - 1)

AddRaw(araw) ==
    NatNorm([ap \in 1..Len(araw) |-> (araw[ap] + AddCarry(araw, ap)) % Base])

AddLimbs(x, y, alen) == AddRaw([ap \in 1..alen |-> Limb(x, ap) + Limb(y, ap)])

NatAdd(x, y) ==
    IF x = <<>> THEN y
    ELSE IF y = <<>> THEN x
    ELSE AddLimbs(x, y, IF Len(x) >= Len(y) THEN Len(x) + 1 ELSE Len(y) + 1)

\* -1, 0, 1 as x < y, x = y, x > y: decided by the highest differing limb
NatCmp(x, y) ==
    IF Len(x) < Len(y) THEN -1
    ELSE IF Len(x) > Len(y) THEN 1
    ELSE IF x = y THEN 0
    ELSE LET cback == CHOOSE cd \in 0..(Len(x) - 1) :
                          /\ x[Len(x) - cd] # y[Len(x) - cd]
                          /\ \A ce \in 0..(cd - 1) : x[Len(x) - ce] = y[Len(x) - ce]
         IN  IF x[Len(x) - cback] < y[Len(x) - cback] THEN -1 ELSE 1

\* x - y for x >= y
\* sraw holds the differences of the limbs, position by position; the
\* borrow comes from the nearest lower position that does not hold 0
SubBorrowFrom(sraw, bi, bback) ==
    IF bback < bi /\ sraw[bi - bback] < 0 THEN 1 ELSE 0

SubBorrow(sraw, bi) ==
    SubBorrowFrom(sraw, bi,
                  CHOOSE bd \in 1..bi :
                      /\ bd = bi \/ sraw[bi - bd] # 0
                      /\ \A be \in 1..(bd - 1) : sraw[bi - be] = 0)

SubRaw(sraw) ==
    NatNorm([bp \in 1..Len(sraw) |-> (sraw[bp] - SubBorrow(sraw, bp)) % Base])

NatSub(x, y) ==
    IF y = <<>> THEN x
    ELSE SubRaw([bp \in 1..Len(x) |-> x[bp] - Limb(y, bp)])

\* the number whose limb positions hold cols, each 0 <= cols[i] < 2^31:
\* every column is four limbs, and a position collects less than 3 Base
\* the limb of weight Base^cs of the column cs positions below cpos
ColLimb(cols, cpos, cs) ==
    IF cpos - cs < 1 \/ cpos - cs > Len(cols) THEN 0
    ELSE (cols[cpos - cs] \div (Base ^ cs)) % Base

\* psum holds what each position collects from the four limbs of the columns
CarrySum(psum) ==
    NatAdd(NatNorm([cp \in 1..Len(psum) |-> psum[cp] % Base]),
           NatNorm([cp \in 1..(Len(psum) + 1) |->
                       IF cp = 1 THEN 0 ELSE psum[cp - 1] \div Base]))

Carry(cols) ==
    IF cols = <<>> THEN <<>>
    ELSE CarrySum([cp \in 1..(Len(cols) + 3) |->
                      ColLimb(cols, cp, 0) + ColLimb(cols, cp, 1)
                          + ColLimb(cols, cp, 2) + ColLimb(cols, cp, 3)])

\* x * k for a machine integer 0 <= k <= 2000000
NatMulSmall(x, k) ==
    IF k = 0 \/ x = <<>> THEN <<>> ELSE Carry([mp \in 1..Len(x) |-> x[mp] * k])

\* x \div 2
NatHalf(x) == HighLimbs(NatMulSmall(x, Base \div 2), 2)

\* the sum of x[i] * y[col + 1 - i] for lo <= i <= hi
RECURSIVE ColSum(_, _, _, _, _)
ColSum(x, y, col, lo, hi) ==
    IF hi - lo < 4
    THEN (IF lo <= hi THEN x[lo] * y[col + 1 - lo] ELSE 0)
         + (IF lo + 1 <= hi THEN x[lo + 1] * y[col - lo] ELSE 0)
         + (IF lo + 2 <= hi THEN x[lo + 2] * y[col - 1 - lo] ELSE 0)
         + (IF lo + 3 <= hi THEN x[lo + 3] * y[col - 2 - lo] ELSE 0)
    ELSE LET quarter == (hi - lo + 4) \div 4
         IN  ColSum(x, y, col, lo, lo + quarter - 1)
             + ColSum(x, y, col, lo + quarter, lo + 2 * quarter - 1)
             + ColSum(x, y, col, lo + 2 * quarter,
                      IF lo + 3 * quarter - 1 < hi THEN lo + 3 * quarter - 1 ELSE hi)
             + ColSum(x, y, col, lo + 3 * quarter, hi)

NatMul(x, y) ==
    IF x = <<>> \/ y = <<>> THEN <<>>
    ELSE Carry([mc \in 1..(Len(x) + Len(y) - 1) |->
                  ColSum(x, y, mc,
                         IF mc + 1 - Len(y) > 1 THEN mc + 1 - Len(y) ELSE 1,
                         IF mc < Len(x) THEN mc ELSE Len(x))])

\* q^(2^times) * f for a machine integer 0 <= f <= 2000000
RECURSIVE PowQuad(_, _, _)
PowQuad(q, f, times) ==
    IF q = <<>> THEN <<>>
    ELSE IF times = 0 THEN NatMulSmall(q, f)
    ELSE PowQuad(NatMul(q, q), f, times - 1)

\* b^k for a machine integer 2 <= b <= 125
RECURSIVE NatPow(_, _)
NatPow(b, k) ==
    IF k < 4 THEN NatFromInt(b ^ k)
    ELSE PowQuad(NatPow(b, k \div 4), b ^ (k % 4), 2)

\* the number of bits of x, given plow = 2^blow <= x < 8 plow
BitLenFrom(x, blow, plow) ==
    IF plow = <<>> THEN 0
    ELSE blow + Cardinality({bi \in 0..2 : NatCmp(NatMulSmall(plow, 2 ^ bi), x) <= 0})

\* the number of bits of x: the k with 2^(k-1) <= x < 2^k.  The top two
\* limbs and the limb count place k within three candidates
NatBitLen(x) ==
    IF Len(x) <= 3 THEN BitsOfInt(NatToInt(x))
    ELSE LET lowest == BitsOfInt(NatToInt(HighLimbs(x, Len(x) - 1))) - 1
                           + ((Len(x) - 2) * 99657) \div 10000
         IN  BitLenFrom(x, lowest, NatPow(2, lowest))

\* for the limbs lo..hi of x taken as a number v of hi-lo+1 limbs:
\* v mod d, and Base^(hi-lo+1) mod d; 1 <= d <= 46340
RECURSIVE SegMod(_, _, _, _)
SegMod(x, d, lo, hi) ==
    IF lo > hi THEN [v |-> 0, p |-> 1 % d]
    ELSE IF lo = hi THEN [v |-> x[lo] % d, p |-> Base % d]
    ELSE LET slow  == SegMod(x, d, lo, (lo + hi) \div 2)
             shigh == SegMod(x, d, (lo + hi) \div 2 + 1, hi)
         IN  [v |-> (((shigh.v * slow.p) % d) + slow.v) % d,
              p |-> (slow.p * shigh.p) % d]

\* quotient and remainder by a machine integer 1 <= d <= 46340
NatDivModSmall(x, d) ==
    [q |-> NatNorm([dp \in 1..Len(x) |->
                      (SegMod(x, d, dp + 1, Len(x)).v * Base + x[dp]) \div d]),
     r |-> SegMod(x, d, 1, Len(x)).v]

\* scaled = x * Base^cj / 2^s cut at the limb cj: the quotient x \div 2^s,
\* how the remainder compares with half of 2^s, and whether it is zero
CutLimbs(scaled, cj) ==
    IF scaled = <<>> THEN [q |-> <<>>, half |-> -1, exact |-> TRUE]
    ELSE [q     |-> HighLimbs(scaled, cj + 1),
          half  |-> IF Limb(scaled, cj) > Base \div 2 THEN 1
                    ELSE IF Limb(scaled, cj) < Base \div 2 THEN -1
                    ELSE IF \A lq \in 1..(cj - 1) : Limb(scaled, lq) = 0 THEN 0
                    ELSE 1,
          exact |-> \A lq \in 1..cj : Limb(scaled, lq) = 0]

\* x divided by 2^s: x * 5^(3j) * 2^(3j-s) is x / 2^s * Base^j, for 3j >= s
DivPow2(x, s) ==
    IF s = 0 THEN [q |-> x, half |-> -1, exact |-> TRUE]
    ELSE CutLimbs(NatMul(x, NatMulSmall(NatPow(125, (s + 2) \div 3),
                                        2 ^ (3 * ((s + 2) \div 3) - s))),
                  (s + 2) \div 3)

\* one step of Newton's iteration for Base^scale / y from below:
\* r + r (Base^scale - y r) / Base^scale never exceeds Base^scale / y
\* rd is r (Base^scale - y r)
RecipAdd(scale, r, rd) ==
    IF rd = <<>> THEN r ELSE NatAdd(r, HighLimbs(rd, scale + 1))

\* yr is y r
RecipErr(scale, r, yr) ==
    IF yr = <<>> THEN r
    ELSE RecipAdd(scale, r, NatMul(r, NatSub(Shift(<<1>>, scale), yr)))

NatRecipStep(y, scale, r) == RecipErr(scale, r, NatMul(y, r))

RECURSIVE NatRecipIter(_, _, _, _)
NatRecipIter(y, scale, r, steps) ==
    IF r = <<>> \/ steps = 0 THEN r
    ELSE NatRecipIter(y, scale, NatRecipStep(y, scale, r), steps - 1)

\* a lower bound of Base^(Len(y) + k) / y, a few units below it, for y of
\* at least two limbs and k >= 1.  The iteration starts from the reciprocal
\* of the top limbs of y, rounded up, at a quarter of the precision (for
\* k <= 4 from the top two limbs), and a step doubles the precision
\* rtop is the reciprocal of the top limbs, sh limbs short
RecipFrom(y, k, rtop, sh) ==
    IF rtop = <<>> THEN <<>>
    ELSE NatRecipIter(y, Len(y) + k, Shift(rtop, sh), 2)

RECURSIVE NatRecip(_, _)
NatRecip(y, k) ==
    IF k <= 4
    THEN NatRecipIter(y, Len(y) + k,
             Shift(NatFromInt(1000000000
                       \div (NatToInt(HighLimbs(y, Len(y) - 1)) + 1)),
                   k - 1),
             3)
    ELSE IF Len(y) > (k + 8) \div 4
    THEN RecipFrom(y, k,
             NatRecip(NatAdd(HighLimbs(y, Len(y) - (k + 8) \div 4 + 1), <<1>>),
                      (k + 8) \div 4),
             k - Len(NatAdd(HighLimbs(y, Len(y) - (k + 8) \div 4 + 1), <<1>>)))
    ELSE RecipFrom(y, k, NatRecip(y, (k + 8) \div 4), k - (k + 8) \div 4)

\* the quotient q <= x \div y and the rest x - y q brought to the quotient
\* and the remainder
RECURSIVE DivFix(_, _, _)
DivFix(y, q, rest) ==
    IF NatCmp(rest, y) < 0 THEN [q |-> q, r |-> rest]
    ELSE DivFix(y, NatAdd(q, <<1>>), NatSub(rest, y))

DivEst(x, y, qest) ==
    IF qest = <<>> THEN DivFix(y, qest, x)
    ELSE DivFix(y, qest, NatSub(x, NatMul(y, qest)))

\* quotient and remainder of x >= y by y of at least two limbs: the
\* quotient is estimated from below with the reciprocal of y
DivByRecip(x, y, rcp) ==
    IF rcp = <<>> THEN [q |-> <<>>, r |-> x]
    ELSE DivEst(x, y, HighLimbs(NatMul(x, rcp), Len(x) + 3))

NatDivLong(x, y) == DivByRecip(x, y, NatRecip(y, Len(x) + 2 - Len(y)))

\* quotient and remainder of x by y > 0
NatDivMod(x, y) ==
    IF NatCmp(x, y) < 0 THEN [q |-> <<>>, r |-> x]
    ELSE IF Len(y) = 1 THEN LET one == NatDivModSmall(x, y[1])
                            IN  [q |-> one.q, r |-> NatFromInt(one.r)]
    ELSE NatDivLong(x, y)

\* one step of Newton's iteration for the square root from above
SqrtAverage(guess, dq) ==
    IF dq = <<>> THEN NatHalf(guess) ELSE NatHalf(NatAdd(guess, dq))

NatSqrtStep(x, guess) == SqrtAverage(guess, NatDivMod(x, guess).q)

RECURSIVE NatSqrtIter(_, _, _)
NatSqrtIter(x, guess, steps) ==
    IF guess = <<>> \/ steps = 0 THEN guess
    ELSE NatSqrtIter(x, NatSqrtStep(x, guess), steps - 1)

\* guess >= floor(sqrt(x)) brought down to it
RECURSIVE SqrtFix(_, _)
SqrtFix(x, guess) ==
    IF guess = <<>> THEN guess
    ELSE IF NatCmp(NatMul(guess, guess), x) <= 0 THEN guess
    ELSE SqrtFix(x, NatSub(guess, <<1>>))

\* floor of the square root of the machine integer 0 <= n < 10^9
SqrtOfInt(n) ==
    LET coarse == CHOOSE ra \in 0..177 :
                      (ra * 178) * (ra * 178) <= n
                          /\ n < ((ra + 1) * 178) * ((ra + 1) * 178)
    IN  CHOOSE rs \in (coarse * 178)..(coarse * 178 + 177) :
            rs * rs <= n /\ n < (rs + 1) * (rs + 1)

\* floor of the square root.  The iteration starts above the root, from
\* the root of the top quarter of the limbs, and never falls below the root
\* rtop is the root of the limbs of x above the lowest 2 cnt
SqrtFrom(x, rtop, cnt) ==
    IF rtop = <<>> THEN <<>>
    ELSE SqrtFix(x, NatSqrtIter(x, Shift(NatAdd(rtop, <<1>>), cnt), 3))

RECURSIVE NatIsqrt(_)
NatIsqrt(x) ==
    IF Len(x) <= 3 THEN NatFromInt(SqrtOfInt(NatToInt(x)))
    ELSE LET skip == IF (3 * (Len(x) - 1)) \div 8 > 1
                     THEN (3 * (Len(x) - 1)) \div 8 ELSE 1
         IN  SqrtFrom(x, NatIsqrt(HighLimbs(x, 2 * skip + 1)), skip)

(***************************************************************************)
(* Signed integers (mpz_class) and the operators the evaluator uses.       *)
(***************************************************************************)
ZMake(neg, mag) == [neg |-> neg /\ mag # <<>>, mag |-> mag]

ZInt(n) == IF n < 0 THEN ZMake(TRUE, NatFromInt(-n)) ELSE ZMake(FALSE, NatFromInt(n))

ZNeg(x) == ZMake(~x.neg, x.mag)

ZMul(x, y) == ZMake(x.neg # y.neg, NatMul(x.mag, y.mag))

ZAdd(x, y) ==
    IF x.neg = y.neg THEN ZMake(x.neg, NatAdd(x.mag, y.mag))
    ELSE IF NatCmp(x.mag, y.mag) >= 0 THEN ZMake(x.neg, NatSub(x.mag, y.mag))
    ELSE ZMake(y.neg, NatSub(y.mag, x.mag))

ZSub(x, y) == ZAdd(x, ZNeg(y))

\* mpz_class / unsigned long: the quotient truncated towards zero
ZDivSmall(x, d) == ZMake(x.neg, NatDivModSmall(x.mag, d).q)

ZSgn(x) == IF x.mag = <<>> THEN 0 ELSE IF x.neg THEN -1 ELSE 1

(***************************************************************************)
(* The Chudnovsky term leaf and the binary-splitting evaluator.            *)
(***************************************************************************)
A == ZInt(13591409)
B == ZInt(545140134)
C3_OVER_24 == ZDivSmall(ZMul(ZMul(ZInt(640320), ZInt(640320)), ZInt(640320)), 24)

BSplitTriplet(p, q, t) == [P |-> p, Q |-> q, T |-> t]

\* leaf with the sign of T taken from the wrong parity
leaf_even_negated(a) ==
    IF a = 0 THEN BSplitTriplet(ZInt(1), ZInt(1), A)
    ELSE LET az == ZInt(a)
             P  == ZMul(ZMul(ZSub(ZMul(ZInt(6), az), ZInt(5)),
                             ZSub(ZMul(ZInt(2), az), ZInt(1))),
                        ZSub(ZMul(ZInt(6), az), ZInt(1)))
             Q  == ZMul(ZMul(ZMul(az, az), az), C3_OVER_24)
             T  == ZMul(P, ZAdd(A, ZMul(B, az)))
         IN  BSplitTriplet(P, Q, IF a % 2 = 0 THEN ZNeg(T) ELSE T)

\* leaf without the special case of the first term
leaf_no_first_term(a) ==
    LET az == ZInt(a)
        P  == ZMul(ZMul(ZSub(ZMul(ZInt(6), az), ZInt(5)),
                        ZSub(ZMul(ZInt(2), az), ZInt(1))),
                   ZSub(ZMul(ZInt(6), az), ZInt(1)))
        Q  == ZMul(ZMul(ZMul(az, az), az), C3_OVER_24)
        T  == ZMul(P, ZAdd(A, ZMul(B, az)))
    IN  BSplitTriplet(P, Q, IF a % 2 = 1 THEN ZNeg(T) ELSE T)

\* if (a & 1) T = -T
LeafSigned(a, p, q, t) == BSplitTriplet(p, q, IF a % 2 = 1 THEN ZNeg(t) ELSE t)

leaf(a) ==
    IF a = 0 THEN BSplitTriplet(ZInt(1), ZInt(1), A)
    ELSE LET az == ZInt(a)
             P  == ZMul(ZMul(ZSub(ZMul(ZInt(6), az), ZInt(5)),
                             ZSub(ZMul(ZInt(2), az), ZInt(1))),
                        ZSub(ZMul(ZInt(6), az), ZInt(1)))
             Q  == ZMul(ZMul(ZMul(az, az), az), C3_OVER_24)
             T  == ZMul(P, ZAdd(A, ZMul(B, az)))
         IN  LeafSigned(a, P, Q, T)

\* the combination with T computed from the merged P
Merge_stale_P(L, R) ==
    BSplitTriplet(ZMul(L.P, R.P),
                  ZMul(L.Q, R.Q),
                  ZAdd(ZMul(L.T, R.Q), ZMul(ZMul(L.P, R.P), R.T)))

\* the combination step of both versions of bsplit_impl
Merge(L, R) ==
    BSplitTriplet(ZMul(L.P, R.P),
                  ZMul(L.Q, R.Q),
                  ZAdd(ZMul(L.T, R.Q), ZMul(L.P, R.T)))

\* the non-reporting version
RECURSIVE bsplit_impl(_, _)
bsplit_impl(a, b) ==
    IF b - a = 1 THEN leaf(a)
    ELSE LET m == (a + b) \div 2
             lft == bsplit_impl(a, m)
             rgt == bsplit_impl(m, b)
         IN  IF /\ lft = lft /\ rgt = rgt THEN Merge(lft, rgt) ELSE lft

bsplit_chudnovsky(a, b) == bsplit_impl(a, b)

\* one pass of the chunk loop of bsplit_chudnovsky_parallel: P and Q are
\* updated in place before T is computed from them
Combine(acc, chunk) ==
    LET P == ZMul(acc.P, chunk.P)
        Q == ZMul(acc.Q, chunk.Q)
    IN  BSplitTriplet(P, Q, ZAdd(ZMul(acc.T, chunk.Q), ZMul(P, chunk.T)))

(***************************************************************************)
(* Floating values (mpfr_t): sign, mantissa m of exactly prec bits and     *)
(* exponent e stand for the value m * 2^e.  Every operation computes the   *)
(* exact result and rounds it once, to nearest, ties to even (MPFR_RNDN).  *)
(***************************************************************************)
\* the mantissa mm of at most prec + 1 bits brought to prec bits
RoundCarry(neg, mm, e, prec) ==
    IF mm = NatPow(2, prec) THEN [neg |-> neg, m |-> NatHalf(mm), e |-> e + 1]
    ELSE [neg |-> neg, m |-> mm, e |-> e]

\* dm is the mantissa cut to prec bits and what was cut off
RoundCut(neg, dm, sticky, e, prec) ==
    IF dm.half > 0 \/ (dm.half = 0 /\ (sticky \/ Limb(dm.q, 1) % 2 = 1))
    THEN RoundCarry(neg, NatAdd(dm.q, <<1>>), e, prec)
    ELSE [neg |-> neg, m |-> dm.q, e |-> e]

\* x of len bits
RoundAt(neg, x, sticky, e, prec, len) ==
    IF len <= prec
    THEN [neg |-> neg, m |-> NatMul(x, NatPow(2, prec - len)), e |-> e - (prec - len)]
    ELSE RoundCut(neg, DivPow2(x, len - prec), sticky, e + (len - prec), prec)

\* x * 2^e, x > 0, rounded to prec bits; sticky says that a nonzero tail
\* below x was cut off already
MpfrRound(neg, x, sticky, e, prec) ==
    IF x = <<>> THEN [neg |-> FALSE, m |-> <<>>, e |-> 0]
    ELSE RoundAt(neg, x, sticky, e, prec, NatBitLen(x))

mpfr_set_ui(u, prec) == MpfrRound(FALSE, NatFromInt(u), FALSE, 0, prec)

mpfr_set_z(z, prec) == MpfrRound(z.neg, z.mag, FALSE, 0, prec)

\* root is the integer root of wide
SqrtRound(root, wide, e, prec) ==
    IF root = <<>> THEN [neg |-> FALSE, m |-> <<>>, e |-> 0]
    ELSE MpfrRound(FALSE, root, NatMul(root, root) # wide, e, prec)

SqrtWide(wide, e, prec) ==
    IF wide = <<>> THEN [neg |-> FALSE, m |-> <<>>, e |-> 0]
    ELSE SqrtRound(NatIsqrt(wide), wide, e, prec)

\* the mantissa is scaled to 2 prec + 2 bits or one more, to an even
\* exponent, so that the integer root has a bit below the rounding position
mpfr_sqrt(v, prec) ==
    IF v.m = <<>> THEN v
    ELSE LET kk == IF (v.e - (prec + 2)) % 2 = 0 THEN prec + 2 ELSE prec + 3
         IN  SqrtWide(NatMul(v.m, NatPow(2, kk)), (v.e - kk) \div 2, prec)

mpfr_mul_ui(v, u, prec) ==
    IF v.m = <<>> THEN v
    ELSE MpfrRound(v.neg, NatMulSmall(v.m, u), FALSE, v.e, prec)

mpfr_mul(v, w, prec) ==
    IF v.m = <<>> \/ w.m = <<>> THEN [neg |-> FALSE, m |-> <<>>, e |-> 0]
    ELSE MpfrRound(v.neg # w.neg, NatMul(v.m, w.m), FALSE, v.e + w.e, prec)

\* dm is the quotient and the remainder of the scaled mantissas
DivRound(neg, dm, e, prec) ==
    IF dm.q = <<>> THEN [neg |-> FALSE, m |-> <<>>, e |-> 0]
    ELSE MpfrRound(neg, dm.q, dm.r # <<>>, e, prec)

\* the dividend is scaled by prec + 2 bits: the quotient of two mantissas
\* of prec bits then has a bit below the rounding position
mpfr_div(v, w, prec) ==
    IF v.m = <<>> \/ w.m = <<>> THEN [neg |-> FALSE, m |-> <<>>, e |-> 0]
    ELSE DivRound(v.neg # w.neg,
                  NatDivMod(NatMul(v.m, NatPow(2, prec + 2)), w.m),
                  v.e - (prec + 2) - w.e, prec)

\* the assembly without the factor 426880
Assemble_unscaled(S, prec) ==
    mpfr_div(mpfr_mul(mpfr_sqrt(mpfr_set_ui(10005, prec), prec),
                      mpfr_set_z(S.Q, prec), prec),
             mpfr_set_z(ZMake(FALSE, S.T.mag), prec), prec)

\* lines 89-107 of compute_pi_impl: pi = sqrt(10005) * 426880 * Q / |T|
Assemble(S, prec) ==
    mpfr_div(mpfr_mul(mpfr_mul_ui(mpfr_sqrt(mpfr_set_ui(10005, prec), prec),
                                  426880, prec),
                      mpfr_set_z(S.Q, prec), prec),
             mpfr_set_z(ZMake(FALSE, S.T.mag), prec), prec)

(***************************************************************************)
(* mpfr_get_str and the fixed-point formatter.  A string is a sequence of  *)
(* one-character strings.                                                  *)
(***************************************************************************)
Max(x, y) == IF x >= y THEN x ELSE y
Min(x, y) == IF x <= y THEN x ELSE y

DigitChars == <<"0", "1", "2", "3", "4", "5", "6", "7", "8", "9",
                "a", "b", "c", "d", "e", "f">>

Zeros(count) == [zp \in 1..count |-> "0"]

\* v / b^c for v > 0 as a quotient of two naturals
Ratio(v, b, c) ==
    [num |-> NatMul(v.m, NatMul(NatPow(2, Max(v.e, 0)), NatPow(b, Max(-c, 0)))),
     den |-> NatMul(NatPow(2, Max(-v.e, 0)), NatPow(b, Max(c, 0)))]

CmpRatio(rt) == NatCmp(rt.num, rt.den)

\* the sign of v - b^c for v > 0
CmpPow(v, b, c) == CmpRatio(Ratio(v, b, c))

\* the digit of weight b^j in the expansion of x in base b, 10 or 16
DigitAt(x, b, j) ==
    IF b = 10
    THEN (Limb(x, j \div 3 + 1) \div (IF j % 3 = 0 THEN 1
                                      ELSE IF j % 3 = 1 THEN 10 ELSE 100)) % 10
    ELSE NatDivModSmall(DivPow2(x, 4 * j).q, 16).r

\* the quotient dm.q and how the remainder compares with half of den
HalfOf(dm, den) == [q |-> dm.q, half |-> NatCmp(NatMulSmall(dm.r, 2), den)]

\* to the nearest integer, ties to even
RoundQuot(qh) ==
    IF qh.half > 0 \/ (qh.half = 0 /\ Limb(qh.q, 1) % 2 = 1)
    THEN NatAdd(qh.q, <<1>>)
    ELSE qh.q

\* rt.num / rt.den rounded to the nearest integer, ties to even; a
\* denominator 2^s is given by s >= 0
RoundDiv(rt, s) ==
    RoundQuot(IF s >= 0 THEN DivPow2(rt.num, s)
              ELSE HalfOf(NatDivMod(rt.num, rt.den), rt.den))

\* the n digits of dd, which rounding may have carried to b^n
MantOf(b, n, neg, ex, dd) ==
    IF dd = NatPow(b, n)
    THEN [neg |-> neg, mant |-> <<"1">> \o Zeros(n - 1), expo |-> ex + 1]
    ELSE [neg  |-> neg,
          mant |-> [dp \in 1..n |-> DigitChars[DigitAt(dd, b, n - dp) + 1]],
          expo |-> ex]

\* the digits of v, b^(ex-1) <= v < b^ex
GetStrAt(b, n, v, ex) ==
    MantOf(b, n, v.neg, ex,
           RoundDiv(Ratio(v, b, ex - n), IF ex <= n /\ v.e <= 0 THEN -v.e ELSE -1))

\* the ex with b^(ex-1) <= v < b^ex, given b^(est-1) <= v < b^(est+2)
DigitExp(v, b, est) ==
    est - 1 + Cardinality({c \in (est - 1)..(est + 1) : CmpPow(v, b, c) >= 0})

\* mpfr_get_str(nullptr, &expo, b, n, v, MPFR_RNDN) for v # 0: the n digits
\* of v rounded to nearest, and expo with |v| = 0.digits * b^expo
mpfr_get_str(b, n, v) ==
    LET bits == NatBitLen(v.m) + v.e
    IN  GetStrAt(b, n, v,
                 DigitExp(v, b, IF b = 16 THEN (bits - 1) \div 4
                                ELSE ((bits - 1) * 30103) \div 100000))

\* line 32: the indices of mant read for the fractional part, from 0
FracIndices(len, expo, digitsN) == expo..(Min(len, expo + digitsN) - 1)

\* the placement with the fractional part read up to expo + digits without
\* the clamp to len: the terminator of the string, or what follows it
Place_unclamped(neg, mant, expo, digitsN) ==
    LET sign == IF neg THEN <<"-">> ELSE <<>>
    IN  IF expo <= 0
        THEN sign \o <<"0", ".">> \o Zeros(-expo) \o mant
        ELSE IF Len(mant) <= expo
        THEN sign \o mant \o Zeros(expo - Len(mant)) \o <<".">>
        ELSE sign \o SubSeq(mant, 1, expo) \o <<".">>
                  \o [fq \in 1..digitsN |->
                         IF expo + fq <= Len(mant) THEN mant[expo + fq] ELSE "\\0"]

\* format.cpp lines 13-34: the mantissa placed around the point
Place(neg, mant, expo, digitsN) ==
    LET sign == IF neg THEN <<"-">> ELSE <<>>
    IN  IF expo <= 0
        THEN sign \o <<"0", ".">> \o Zeros(-expo) \o mant
        ELSE IF Len(mant) <= expo
        THEN sign \o mant \o Zeros(expo - Len(mant)) \o <<".">>
        ELSE sign \o SubSeq(mant, 1, expo) \o <<".">>
                  \o SubSeq(mant, expo + 1, Min(Len(mant), expo + digitsN))

\* the fractional part is left as it is
Enforce_no_padding(str, digitsN) ==
    LET dotted == IF \E ep \in 1..Len(str) : str[ep] = "." THEN str
                  ELSE str \o <<".">>
        pos    == CHOOSE ep \in 1..Len(dotted) :
                      dotted[ep] = "." /\ \A eq \in 1..(ep - 1) : dotted[eq] # "."
        have   == Len(dotted) - pos
    IN  IF have > digitsN THEN SubSeq(dotted, 1, pos + digitsN) ELSE dotted

\* format.cpp lines 36-44: exactly digitsN characters after the first point
Enforce(str, digitsN) ==
    LET dotted == IF \E ep \in 1..Len(str) : str[ep] = "." THEN str
                  ELSE str \o <<".">>
        pos    == CHOOSE ep \in 1..Len(dotted) :
                      dotted[ep] = "." /\ \A eq \in 1..(ep - 1) : dotted[eq] # "."
        have   == Len(dotted) - pos
    IN  IF have < digitsN THEN dotted \o Zeros(digitsN - have)
        ELSE IF have > digitsN THEN SubSeq(dotted, 1, pos + digitsN)
        ELSE dotted

\* mpfr_to_fixed_decimal from what mpfr_get_str returned
FixedFromStr(gs, digitsN) ==
    Enforce(Place(gs.neg, gs.mant, gs.expo, digitsN), digitsN)

mpfr_to_fixed_decimal(v, digitsN) ==
    FixedFromStr(mpfr_get_str(10, digitsN + 2, v), digitsN)

\* the hexadecimal formatter: the same placement on a base-16 mantissa of
\* digitsN + 2 digits
mpfr_to_fixed_hex(v, digitsN) ==
    FixedFromStr(mpfr_get_str(16, digitsN + 2, v), digitsN)

(***************************************************************************)
(* The planner.  The two double constants are written out as the exact     *)
(* decimals of the source, scaled to integers; for the digit counts of     *)
(* this model the double products are nowhere near an integer, so the      *)
(* truncation and the ceiling are those of the exact values.               *)
(***************************************************************************)
\* 3.3219280948873626 * 10^18
Log2Of10 == <<600, 362, 887, 94, 928, 321, 3>>

\* digits_per_term() * 10^15
digits_per_term == <<477, 725, 462, 647, 181, 14>>

\* the precision without the guard bits
PrecBits_no_guard(digitsN, b) ==
    IF b = 16 THEN digitsN * 4
    ELSE NatToInt(HighLimbs(NatMulSmall(Log2Of10, digitsN), 7))

\* static_cast<long>(digits * (base == 16 ? 4.0 : 3.3219280948873626) + 64)
PrecBits(digitsN, b) ==
    IF b = 16 THEN digitsN * 4 + 64
    ELSE NatToInt(HighLimbs(NatMulSmall(Log2Of10, digitsN), 7)) + 64

\* the quotient truncated instead of rounded up
TermCount_truncated(digitsN) ==
    Cardinality({tk \in 1..digitsN :
                     NatCmp(NatMulSmall(digits_per_term, tk),
                            Shift(NatFromInt(digitsN), 5)) <= 0}) + 1

\* static_cast<long>(std::ceil(digits / digits_per_term())) + 1: the
\* ceiling counts the k >= 0 with k * digits_per_term() < digits
TermCount(digitsN) ==
    Cardinality({tk \in 0..digitsN :
                     NatCmp(NatMulSmall(digits_per_term, tk),
                            Shift(NatFromInt(digitsN), 5)) < 0}) + 1

\* lines 109 and 148-152: the formatter of the base (mpfr_get_str is
\* modelled for a nonzero value)
FormatValue(value, digitsN, b) ==
    IF value.m = <<>> THEN <<>>
    ELSE IF b = 16 THEN mpfr_to_fixed_hex(value, digitsN)
    ELSE mpfr_to_fixed_decimal(value, digitsN)

\* the string returned for the triplet S: lines 89-111 and 127-154
Output(S, digitsN, b, prec) == FormatValue(Assemble(S, prec), digitsN, b)

(***************************************************************************)
(* The reporting version of bsplit_impl, one frame per call.  A frame is   *)
(* at "call" (entered), "left" (inside the left recursion) or "right"      *)
(* (inside the right one, L holding the left result).                      *)
(***************************************************************************)
NoTriplet == BSplitTriplet(ZInt(0), ZInt(0), ZInt(0))

Frame(a, b) == [a |-> a, b |-> b, st |-> "call", L |-> NoTriplet]

Top == stack[Len(stack)]

Pop == SubSeq(stack, 1, Len(stack) - 1)

Running == pc \in {"seq", "par"} /\ stack # <<>>

\* what the caller of the outermost bsplit_chudnovsky does with the result
AfterReturn ==
    IF Len(stack) = 1 /\ pc = "seq"
    THEN (IF entry = "bsplit_chudnovsky" THEN "done" ELSE "evaluated")
    ELSE pc

\* b - a == 1: the leaf, then the tick
Leaf ==
    /\ Running /\ Top.st = "call" /\ Top.b - Top.a = 1
    /\ ret' = <<leaf(Top.a)>>
    /\ visited' = Append(visited, Top.a)
    /\ prog' = IF prog.present THEN [prog EXCEPT !.done = prog.done + 1] ELSE prog
    /\ ticks' = IF prog.present /\ prog.tick
                THEN Append(ticks, [done |-> prog.done + 1, total |-> prog.total])
                ELSE ticks
    /\ stack' = Pop
    /\ pc' = AfterReturn
    /\ UNCHANGED <<entry, a0, b0, num_threads, result, chunk_start, chunk_size,
                   engVars, fmt, auxVars>>

\* the call on [a, m) with the midpoint rounded up
Descend_ceil_midpoint ==
    /\ Running /\ Top.st = "call" /\ Top.b - Top.a # 1
    /\ LET m == (Top.a + Top.b + 1) \div 2
       IN  stack' = Append([stack EXCEPT ![Len(stack)].st = "left"], Frame(Top.a, m))
    /\ UNCHANGED <<pc, entry, a0, b0, num_threads, prog, ticks, visited, ret,
                   result, chunk_start, chunk_size, engVars, fmt, auxVars>>

\* m = (a + b) / 2 and the call on [a, m)
Descend ==
    /\ Running /\ Top.st = "call" /\ Top.b - Top.a # 1
    /\ LET m == (Top.a + Top.b) \div 2
       IN  stack' = Append([stack EXCEPT ![Len(stack)].st = "left"], Frame(Top.a, m))
    /\ UNCHANGED <<pc, entry, a0, b0, num_threads, prog, ticks, visited, ret,
                   result, chunk_start, chunk_size, engVars, fmt, auxVars>>

\* L is returned; the call on [m, b)
DescendRight ==
    /\ Running /\ Top.st = "left" /\ ret # <<>>
    /\ LET m == (Top.a + Top.b) \div 2
       IN  stack' = Append([stack EXCEPT ![Len(stack)].st = "right",
                                         ![Len(stack)].L = ret[1]],
                           Frame(m, Top.b))
    /\ ret' = <<>>
    /\ UNCHANGED <<pc, entry, a0, b0, num_threads, prog, ticks, visited,
                   result, chunk_start, chunk_size, engVars, fmt, auxVars>>

\* R is returned; the merged triplet is returned
MergeReturn ==
    /\ Running /\ Top.st = "right" /\ ret # <<>>
    /\ ret' = <<Merge(Top.L, ret[1])>>
    /\ stack' = Pop
    /\ pc' = AfterReturn
    /\ UNCHANGED <<entry, a0, b0, num_threads, prog, ticks, visited,
                   result, chunk_start, chunk_size, engVars, fmt, auxVars>>

(***************************************************************************)
(* bsplit_chudnovsky_parallel: the chunk loop.                             *)
(***************************************************************************)
\* the chunk size without the clamp to 1
ChunkSize_unclamped(a, b, threads) == (b - a) \div threads

\* line 104: std::max(1L, (b - a) / num_threads)
ChunkSize(a, b, threads) == Max(1, (b - a) \div threads)

\* loop test passed: the call of bsplit_chudnovsky on the next chunk
ChunkCall ==
    /\ pc = "par" /\ stack = <<>> /\ ret = <<>> /\ chunk_start < b0
    /\ stack' = <<Frame(chunk_start, Min(chunk_start + chunk_size, b0))>>
    /\ UNCHANGED <<pc, entry, a0, b0, num_threads, prog, ticks, visited, ret,
                   result, chunk_start, chunk_size, engVars, fmt, auxVars>>

\* the chunk is returned: combine, and step the loop variable
ChunkCombine ==
    /\ pc = "par" /\ stack = <<>> /\ ret # <<>>
    /\ result' = Combine(result, ret[1])
    /\ chunk_start' = chunk_start + chunk_size
    /\ ret' = <<>>
    /\ UNCHANGED <<pc, entry, a0, b0, num_threads, prog, ticks, visited, stack,
                   chunk_size, engVars, fmt, auxVars>>

\* loop test failed: return result
ChunkLoopExit ==
    /\ pc = "par" /\ stack = <<>> /\ ret = <<>> /\ chunk_start >= b0
    /\ ret' = <<result>>
    /\ pc' = IF entry = "bsplit_chudnovsky_parallel" THEN "done" ELSE "evaluated"
    /\ UNCHANGED <<entry, a0, b0, num_threads, prog, ticks, visited, stack,
                   result, chunk_start, chunk_size, engVars, fmt, auxVars>>

EvalStep ==
    \/ Leaf
    \/ Descend
    \/ DescendRight
    \/ MergeReturn
    \/ ChunkCall
    \/ ChunkCombine
    \/ ChunkLoopExit

\* the entry without the fallback for one worker
EnterParallel_no_fallback(a, b, threads) ==
    /\ pc' = "par"
    /\ stack' = <<>>
    /\ chunk_size' = ChunkSize(a, b, threads)
    /\ result' = BSplitTriplet(ZInt(1), ZInt(1), ZInt(0))
    /\ chunk_start' = a

\* the entry of bsplit_chudnovsky_parallel(a, b, threads, prog)
EnterParallel(a, b, threads) ==
    IF threads <= 1
    THEN /\ pc' = "seq"
         /\ stack' = <<Frame(a, b)>>
         /\ UNCHANGED <<result, chunk_start, chunk_size>>
    ELSE /\ pc' = "par"
         /\ stack' = <<>>
         /\ chunk_size' = ChunkSize(a, b, threads)
         /\ result' = BSplitTriplet(ZInt(1), ZInt(1), ZInt(0))
         /\ chunk_start' = a

(***************************************************************************)
(* The evaluator called directly on a range [a0, b0).                      *)
(***************************************************************************)
MaxTerm == 5
MaxThreads == 3

NullProgress == [present |-> FALSE, done |-> 0, total |-> 0, tick |-> FALSE]
\* Progress{} as its member initialisers leave it, with or without a tick
Progress(tick) == [present |-> TRUE, done |-> 0, total |-> 0, tick |-> tick]

StIdle == [expected |-> <<>>, got |-> <<>>, ok |-> FALSE, message |-> <<>>]

EngIdle ==
    /\ digits = 0 /\ base = 0 /\ prec_bits = 0 /\ out = <<>>
    /\ st = StIdle

FmtIdle == fmt = [ran |-> FALSE]

\* main, the thread pool and the checkpoint are not in use
AuxIdle ==
    /\ cli = [ran |-> FALSE] /\ pool = [ran |-> FALSE] /\ ckpt = [ran |-> FALSE]
    /\ tracker = [ran |-> FALSE]

InitBsplit ==
    /\ pc = "idle" /\ entry = "none"
    /\ a0 \in 0..(MaxTerm - 1) /\ b0 \in (a0 + 1)..MaxTerm
    /\ num_threads \in 1..MaxThreads
    /\ prog \in {NullProgress, Progress(TRUE), Progress(FALSE)}
    /\ ticks = <<>> /\ visited = <<>> /\ stack = <<>> /\ ret = <<>>
    /\ result = NoTriplet /\ chunk_start = 0 /\ chunk_size = 0
    /\ EngIdle /\ FmtIdle /\ AuxIdle

\* bsplit_chudnovsky(a, b): the non-reporting version, no suspension point
CallBsplit ==
    /\ pc = "idle" /\ ~prog.present /\ num_threads = 1
    /\ entry' = "bsplit_chudnovsky"
    /\ ret' = <<bsplit_chudnovsky(a0, b0)>>
    /\ pc' = "done"
    /\ UNCHANGED <<a0, b0, num_threads, prog, ticks, visited, stack, result,
                   chunk_start, chunk_size, engVars, fmt, auxVars>>

\* bsplit_chudnovsky(a, b, prog)
CallBsplitProgress ==
    /\ pc = "idle" /\ prog.present /\ num_threads = 1
    /\ entry' = "bsplit_chudnovsky"
    /\ pc' = "seq"
    /\ stack' = <<Frame(a0, b0)>>
    /\ UNCHANGED <<a0, b0, num_threads, prog, ticks, visited, ret, result,
                   chunk_start, chunk_size, engVars, fmt, auxVars>>

\* bsplit_chudnovsky_parallel(a, b, num_threads, prog)
CallBsplitParallel ==
    /\ pc = "idle"
    /\ entry' = "bsplit_chudnovsky_parallel"
    /\ EnterParallel(a0, b0, num_threads)
    /\ UNCHANGED <<a0, b0, num_threads, prog, ticks, visited, ret, engVars, fmt, auxVars>>

NextBsplit ==
    \/ CallBsplit
    \/ CallBsplitProgress
    \/ CallBsplitParallel
    \/ EvalStep

SpecBsplit == InitBsplit /\ [][NextBsplit]_vars

(***************************************************************************)
(* The engine: compute_pi and its variants.  An entry point plans, resets  *)
(* the caller's Progress and starts the evaluation over [0, n); when the   *)
(* evaluator has returned, the value is assembled and formatted.           *)
(***************************************************************************)
MaxDigits == 15

\* the counter is left as the previous computation left it
ResetProgress_keeps_done(p, n) == [p EXCEPT !.total = n]

\* if (prog) { prog->done = 0; prog->total = n; }
ResetProgress(p, n) == [p EXCEPT !.done = 0, !.total = n]

\* a Progress as an earlier computation of count terms left it
UsedProgress(count) == [present |-> TRUE, done |-> count, total |-> count, tick |-> TRUE]

InitEngine ==
    /\ pc = "idle" /\ entry = "none"
    /\ a0 = 0 /\ b0 = 0
    /\ num_threads \in 1..MaxThreads
    /\ prog \in {NullProgress, Progress(TRUE), Progress(FALSE), UsedProgress(2)}
    /\ ticks = <<>> /\ visited = <<>> /\ stack = <<>> /\ ret = <<>>
    /\ result = NoTriplet /\ chunk_start = 0 /\ chunk_size = 0
    /\ digits \in 0..MaxDigits /\ base \in {7, 10, 16}
    /\ prec_bits = 0 /\ out = <<>> /\ st = StIdle
    /\ FmtIdle /\ AuxIdle

\* the head of compute_pi_impl, compute_pi_base_impl and
\* compute_pi_base_threaded_impl up to the call of the evaluator; threaded
\* says that the entry point takes num_threads
Plan(name, threaded) ==
    LET terms == TermCount(digits)
    IN  /\ pc = "idle"
        /\ entry' = name
        /\ prec_bits' = PrecBits(digits, base)
        /\ a0' = 0 /\ b0' = terms
        /\ prog' = IF prog.present THEN ResetProgress(prog, terms) ELSE prog
        /\ IF threaded /\ num_threads > 1
           THEN EnterParallel(0, terms, num_threads) /\ ret' = <<>>
           ELSE IF prog.present
           THEN /\ pc' = "seq"
                /\ stack' = <<Frame(0, terms)>>
                /\ UNCHANGED <<ret, result, chunk_start, chunk_size>>
           ELSE /\ pc' = "evaluated"
                /\ ret' = <<bsplit_chudnovsky(0, terms)>>
                /\ UNCHANGED <<stack, result, chunk_start, chunk_size>>
        /\ UNCHANGED <<num_threads, ticks, visited, digits, base, out, st, fmt, auxVars>>

CallComputePi ==
    base = 10 /\ ~prog.present /\ num_threads = 1 /\ Plan("compute_pi", FALSE)

CallComputePiWithProgress ==
    base = 10 /\ num_threads = 1 /\ Plan("compute_pi_with_progress", FALSE)

CallComputePiBase ==
    ~prog.present /\ num_threads = 1 /\ Plan("compute_pi_base", FALSE)

CallComputePiBaseWithProgress ==
    num_threads = 1 /\ Plan("compute_pi_base_with_progress", FALSE)

CallComputePiBaseThreaded ==
    ~prog.present /\ Plan("compute_pi_base_threaded", TRUE)

CallComputePiBaseThreadedWithProgress ==
    Plan("compute_pi_base_threaded_with_progress", TRUE)

\* the MPFR context, the formatter and the return
Finish ==
    /\ pc = "evaluated"
    /\ out' = Output(ret[1], digits, base, prec_bits)
    /\ pc' = "done"
    /\ UNCHANGED <<entry, evVars, digits, base, prec_bits, st, fmt, auxVars>>

NextEngine ==
    \/ CallComputePi
    \/ CallComputePiWithProgress
    \/ CallComputePiBase
    \/ CallComputePiBaseWithProgress
    \/ CallComputePiBaseThreaded
    \/ CallComputePiBaseThreadedWithProgress
    \/ EvalStep
    \/ Finish

SpecEngine == InitEngine /\ [][NextEngine]_vars

\* what compute_pi_base(digitsN, b) returns
Engine(digitsN, b) ==
    Output(bsplit_chudnovsky(0, TermCount(digitsN)), digitsN, b, PrecBits(digitsN, b))

(***************************************************************************)
(* The formatter called on what mpfr_get_str may return.                   *)
(***************************************************************************)
MaxMantLen == 3
MaxExpo == 4
MaxFmtDigits == 3

MantChars == {"0", "7"}

InitFormat ==
    /\ pc = "idle" /\ entry = "none"
    /\ a0 = 0 /\ b0 = 0 /\ num_threads = 1 /\ prog = NullProgress
    /\ ticks = <<>> /\ visited = <<>> /\ stack = <<>> /\ ret = <<>>
    /\ result = NoTriplet /\ chunk_start = 0 /\ chunk_size = 0
    /\ EngIdle /\ AuxIdle
    /\ \E fneg \in BOOLEAN, flen \in 1..MaxMantLen, fexpo \in (-MaxExpo)..MaxExpo,
          fcount \in 0..MaxFmtDigits :
          \E fmant \in [1..flen -> MantChars] :
              fmt = [ran |-> FALSE, neg |-> fneg, mant |-> fmant, expo |-> fexpo,
                     digits |-> fcount, out |-> <<>>]

\* lines 13-47 of mpfr_to_fixed_decimal
CallFormat ==
    /\ pc = "idle" /\ ~fmt.ran
    /\ fmt' = [fmt EXCEPT !.ran = TRUE,
                          !.out = FixedFromStr(fmt, fmt.digits)]
    /\ pc' = "done"
    /\ entry' = "mpfr_to_fixed_decimal"
    /\ UNCHANGED <<evVars, engVars, auxVars>>

NextFormat == CallFormat

SpecFormat == InitFormat /\ [][NextFormat]_vars

(***************************************************************************)
(* self_test.  mpfr_const_pi is the library's pi, correctly rounded: it is *)
(* taken from the decimal expansion, which is long enough for precisions   *)
(* up to 3400 bits.                                                        *)
(***************************************************************************)
MaxSelfDigits == 30

SelfTestSizes == {50, 100, 1000}

\* floor(pi * Base^347)
PiLimbs == <<
    968, 827, 381, 153, 936, 865, 278, 863, 485, 65, 201, 257, 95, 938,
    198, 420, 216, 909, 195, 611, 876, 927, 1, 613, 806, 226, 171, 532,
    780, 857, 781, 957, 751, 593, 787, 353, 882, 863, 562, 159, 731, 468,
    755, 428, 490, 253, 598, 303, 147, 669, 177, 617, 420, 381, 208, 533,
    587, 886, 752, 838, 137, 3, 10, 171, 188, 931, 261, 35, 685, 344,
    253, 308, 522, 642, 302, 908, 346, 455, 459, 24, 595, 318, 96, 816,
    732, 731, 59, 951, 49, 978, 372, 998, 999, 349, 211, 707, 518, 960,
    309, 771, 774, 629, 813, 159, 418, 34, 864, 960, 21, 129, 112, 956,
    19, 542, 923, 258, 689, 279, 792, 50, 371, 585, 549, 146, 430, 953,
    224, 901, 440, 468, 721, 178, 637, 173, 609, 789, 757, 342, 771, 785,
    827, 560, 263, 145, 127, 568, 0, 132, 405, 669, 467, 818, 674, 384,
    752, 176, 293, 176, 217, 539, 770, 702, 943, 860, 179, 702, 190, 737,
    224, 395, 946, 394, 21, 86, 643, 656, 440, 362, 673, 833, 129, 949,
    11, 183, 938, 227, 891, 724, 752, 885, 351, 567, 749, 962, 379, 462,
    74, 548, 118, 105, 793, 611, 932, 381, 117, 186, 92, 953, 591, 759,
    365, 270, 57, 433, 609, 511, 941, 951, 146, 384, 521, 466, 820, 548,
    530, 330, 11, 360, 590, 892, 367, 364, 715, 91, 254, 829, 962, 920,
    520, 881, 174, 588, 315, 606, 6, 587, 724, 273, 141, 249, 260, 607,
    393, 213, 648, 326, 454, 610, 348, 460, 923, 566, 648, 145, 909, 201,
    271, 165, 783, 786, 233, 648, 475, 128, 446, 933, 665, 975, 810, 428,
    964, 381, 930, 954, 948, 622, 644, 559, 105, 521, 938, 701, 102, 284,
    450, 117, 481, 128, 408, 359, 725, 231, 582, 550, 609, 844, 93, 647,
    306, 282, 513, 86, 148, 982, 67, 117, 342, 825, 34, 628, 998, 208,
    286, 406, 816, 307, 592, 944, 974, 820, 105, 375, 399, 169, 197, 884,
    502, 279, 383, 643, 462, 238, 793, 589, 653, 592, 141, 3>>
\* pi rounded to nearest at prec bits; pi is no dyadic number
mpfr_const_pi(prec) ==
    MpfrRound(FALSE, HighLimbs(NatMul(PiLimbs, NatPow(2, prec)), Len(PiLimbs)),
              TRUE, -prec, prec)

\* what compute_pi(digitsN) returns
compute_pi(digitsN) == Engine(digitsN, 10)

\* while (i < n && got[i] == expected[i]) ++i;
RECURSIVE MismatchScan(_, _, _, _)
MismatchScan(got, expected, mi, mn) ==
    IF mi < mn /\ got[mi + 1] = expected[mi + 1]
    THEN MismatchScan(got, expected, mi + 1, mn)
    ELSE mi

\* the scan replaced by the length of the shorter string
MismatchIndex_shorter(got, expected) == Min(Len(got), Len(expected))

\* the index the while loop of self_test stops at
MismatchIndex(got, expected) ==
    MismatchScan(got, expected, 0, Min(Len(got), Len(expected)))

InitSelfTest ==
    /\ pc = "idle" /\ entry = "none"
    /\ a0 = 0 /\ b0 = 0 /\ num_threads = 1 /\ prog = NullProgress
    /\ ticks = <<>> /\ visited = <<>> /\ stack = <<>> /\ ret = <<>>
    /\ result = NoTriplet /\ chunk_start = 0 /\ chunk_size = 0
    /\ digits \in (0..MaxSelfDigits) \cup SelfTestSizes /\ base = 10
    /\ prec_bits = 0 /\ out = <<>> /\ st = StIdle
    /\ FmtIdle /\ AuxIdle

\* the reference: mpfr_const_pi at prec_bits, formatted
SelfTestReference ==
    /\ pc = "idle"
    /\ entry' = "self_test"
    /\ prec_bits' = PrecBits(digits, 10)
    /\ st' = [st EXCEPT !.expected =
                 mpfr_to_fixed_decimal(mpfr_const_pi(PrecBits(digits, 10)), digits)]
    /\ pc' = "st_ref"
    /\ UNCHANGED <<evVars, digits, base, out, fmt, auxVars>>

\* got = compute_pi(digits)
SelfTestCompute ==
    /\ pc = "st_ref"
    /\ st' = [st EXCEPT !.got = compute_pi(digits)]
    /\ pc' = "st_got"
    /\ UNCHANGED <<entry, evVars, digits, base, prec_bits, out, fmt, auxVars>>

\* the comparison, the message and the return
SelfTestVerdict ==
    /\ pc = "st_got"
    /\ st' = [st EXCEPT !.ok = (st.got = st.expected),
                        !.message = IF st.got = st.expected THEN <<"OK">>
                                    ELSE <<"Mismatch", MismatchIndex(st.got, st.expected)>>]
    /\ pc' = "done"
    /\ UNCHANGED <<entry, evVars, digits, base, prec_bits, out, fmt, auxVars>>

NextSelfTest ==
    \/ SelfTestReference
    \/ SelfTestCompute
    \/ SelfTestVerdict

SpecSelfTest == InitSelfTest /\ [][NextSelfTest]_vars

(***************************************************************************)
(* The comparison of self_test on its own: a function of the two strings.  *)
(***************************************************************************)
MaxStrLen == 3

StrChars == {"3", ".", "1"}

Strings == UNION {[1..sl -> StrChars] : sl \in 0..MaxStrLen}

InitVerdict ==
    /\ pc = "st_got" /\ entry = "self_test"
    /\ a0 = 0 /\ b0 = 0 /\ num_threads = 1 /\ prog = NullProgress
    /\ ticks = <<>> /\ visited = <<>> /\ stack = <<>> /\ ret = <<>>
    /\ result = NoTriplet /\ chunk_start = 0 /\ chunk_size = 0
    /\ digits = 1 /\ base = 10
    /\ prec_bits = PrecBits(1, 10) /\ out = <<>>
    /\ st \in [expected : Strings, got : Strings, ok : {FALSE}, message : {<<>>}]
    /\ FmtIdle /\ AuxIdle

NextVerdict == SelfTestVerdict

SpecVerdict == InitVerdict /\ [][NextVerdict]_vars

(***************************************************************************)
(* The planner on every path: the engine's entry points and self_test,     *)
(* which plans its own precision and calls compute_pi.                     *)
(***************************************************************************)
\* self_test(digits): no base, no Progress, no worker count
CallSelfTest ==
    base = 10 /\ ~prog.present /\ num_threads = 1 /\ SelfTestReference

NextPlanner ==
    \/ NextEngine
    \/ CallSelfTest
    \/ SelfTestCompute
    \/ SelfTestVerdict

SpecPlanner == InitEngine /\ [][NextPlanner]_vars

(***************************************************************************)
(* The evaluator called on a range and the engine called on a digit count, *)
(* side by side: a caller has either a range or a digit count.             *)
(***************************************************************************)
NextWorkers ==
    \/ b0 > a0 /\ CallBsplit
    \/ b0 > a0 /\ CallBsplitProgress
    \/ b0 > a0 /\ CallBsplitParallel
    \/ b0 = 0 /\ CallComputePiBase
    \/ b0 = 0 /\ CallComputePiBaseWithProgress
    \/ b0 = 0 /\ CallComputePiBaseThreaded
    \/ b0 = 0 /\ CallComputePiBaseThreadedWithProgress
    \/ EvalStep
    \/ Finish

SpecWorkers == (InitBsplit \/ InitEngine) /\ [][NextWorkers]_vars

(***************************************************************************)
(* parse_digits and the conversions of <string> it rests on.  A string is  *)
(* the sequence of its characters.  The strings drawn have no white space, *)
(* no hexadecimal prefix and exponents of at most three digits, so strtold *)
(* reports no range error on them.                                         *)
(***************************************************************************)
DecDigits == <<"0", "1", "2", "3", "4", "5", "6", "7", "8", "9">>

IsDigit(c) == \E dv \in 1..10 : DecDigits[dv] = c

DigitVal(c) == (CHOOSE dv \in 1..10 : DecDigits[dv] = c) - 1

\* 1 when the character at position i is a sign, 0 otherwise
SignLen(s, i) == IF i <= Len(s) /\ s[i] \in {"-", "+"} THEN 1 ELSE 0

\* the first position at or after i that holds no decimal digit
RECURSIVE DigitsEnd(_, _)
DigitsEnd(s, i) ==
    IF i <= Len(s) /\ IsDigit(s[i]) THEN DigitsEnd(s, i + 1) ELSE i

\* the number written by the digits at positions i .. to - 1, after acc
RECURSIVE DigitsNat(_, _, _, _)
DigitsNat(s, i, to, acc) ==
    IF i >= to THEN acc
    ELSE DigitsNat(s, i + 1, to,
                   NatAdd(NatMulSmall(acc, 10), NatFromInt(DigitVal(s[i]))))

NoThrow == "none"

Returned(x) == [thrown |-> NoThrow, value |-> x]

Thrown(what) == [thrown |-> what, value |-> <<>>]

\* 2^64, one more than the largest std::size_t
SizeModulus == NatPow(2, 64)

\* std::stoull(s): strtoull in base 10; a minus sign negates modulo 2^64
StoullAt(s, sg, de, mag) ==
    IF de = 1 + sg THEN Thrown("invalid_argument")
    ELSE IF NatCmp(mag, SizeModulus) >= 0 THEN Thrown("out_of_range")
    ELSE IF sg = 1 /\ s[1] = "-" /\ mag # <<>> THEN Returned(NatSub(SizeModulus, mag))
    ELSE Returned(mag)

stoull(s) ==
    StoullAt(s, SignLen(s, 1), DigitsEnd(s, 1 + SignLen(s, 1)),
             DigitsNat(s, 1 + SignLen(s, 1), DigitsEnd(s, 1 + SignLen(s, 1)), <<>>))

\* std::stoi(s): strtol in base 10, then the range of int
StoiAt(s, sg, de, mag) ==
    IF de = 1 + sg THEN [thrown |-> "invalid_argument", value |-> 0]
    ELSE IF NatCmp(mag, NatPow(2, 31)) >= 0
    THEN [thrown |-> "out_of_range", value |-> 0]
    ELSE [thrown |-> NoThrow,
          value |-> IF sg = 1 /\ s[1] = "-" THEN 0 - NatToInt(mag) ELSE NatToInt(mag)]

stoi(s) ==
    StoiAt(s, SignLen(s, 1), DigitsEnd(s, 1 + SignLen(s, 1)),
           DigitsNat(s, 1 + SignLen(s, 1), DigitsEnd(s, 1 + SignLen(s, 1)), <<>>))

\* std::stold(s), the value mant * 10^expo with its sign: digits, an
\* optional fraction, an optional exponent that needs one digit at least
StoldExp(s, sg, de, fe, mant, es, ee) ==
    IF (fe - 1 - sg) - (IF fe > de THEN 1 ELSE 0) = 0 THEN Thrown("invalid_argument")
    ELSE [thrown |-> NoThrow, neg |-> (sg = 1 /\ s[1] = "-"), mant |-> mant,
          expo |-> (IF ee > es
                    THEN (IF es > fe + 1 /\ s[fe + 1] = "-" THEN -1 ELSE 1)
                            * NatToInt(DigitsNat(s, es, ee, <<>>))
                    ELSE 0)
                   - (IF fe > de THEN fe - de - 1 ELSE 0)]

StoldFrac(s, sg, de, fe) ==
    StoldExp(s, sg, de, fe,
             DigitsNat(s, de + 1, fe, DigitsNat(s, 1 + sg, de, <<>>)),
             IF fe <= Len(s) /\ s[fe] \in {"e", "E"} THEN fe + 1 + SignLen(s, fe + 1)
             ELSE Len(s) + 1,
             IF fe <= Len(s) /\ s[fe] \in {"e", "E"}
             THEN DigitsEnd(s, fe + 1 + SignLen(s, fe + 1))
             ELSE Len(s) + 1)

StoldInt(s, sg, de) ==
    StoldFrac(s, sg, de,
              IF de <= Len(s) /\ s[de] = "." THEN DigitsEnd(s, de + 1) ELSE de)

stold(s) == StoldInt(s, SignLen(s, 1), DigitsEnd(s, 1 + SignLen(s, 1)))

\* std::llround of mant * 10^expo > 0: to nearest, ties away from zero
Llround(mant, expo) ==
    IF expo >= 0 THEN NatMul(mant, NatPow(10, expo))
    ELSE NatDivMod(NatAdd(NatMulSmall(mant, 2), NatPow(10, -expo)),
                   NatMulSmall(NatPow(10, -expo), 2)).q

\* lines 12-16: the scientific form.  Above LLONG_MAX the result of llround
\* is unspecified: any long long, and line 15 raises what is below 1 to 1
ParseScientific(f, rounded) ==
    IF f.thrown # NoThrow THEN {Thrown(f.thrown)}
    ELSE IF f.neg \/ f.mant = <<>> THEN {Thrown("invalid_argument")}
    ELSE IF NatCmp(rounded, NatPow(2, 63)) >= 0
    THEN {Returned(<<1>>), Returned(NatSub(NatPow(2, 63), <<1>>))}
    ELSE IF rounded = <<>> THEN {Returned(<<1>>)}
    ELSE {Returned(rounded)}

\* the results parse_digits(s) can have: a std::size_t or an exception
parse_digits(s) ==
    IF \E ep \in 1..Len(s) : s[ep] \in {"e", "E"}
    THEN ParseScientific(stold(s),
             IF stold(s).thrown = NoThrow /\ ~stold(s).neg
             THEN Llround(stold(s).mant, stold(s).expo) ELSE <<>>)
    ELSE {stoull(s)}

MaxDigitStr == 3

DigitStrChars == {"0", "1", "2", "e", "-", "a"}

DigitStrings == UNION {[1..sl -> DigitStrChars] : sl \in 0..MaxDigitStr}

InitParse ==
    /\ pc = "idle" /\ entry = "none"
    /\ a0 = 0 /\ b0 = 0 /\ num_threads = 1 /\ prog = NullProgress
    /\ ticks = <<>> /\ visited = <<>> /\ stack = <<>> /\ ret = <<>>
    /\ result = NoTriplet /\ chunk_start = 0 /\ chunk_size = 0
    /\ EngIdle /\ FmtIdle
    /\ pool = [ran |-> FALSE] /\ ckpt = [ran |-> FALSE] /\ tracker = [ran |-> FALSE]
    /\ \E dstr \in DigitStrings : cli = [ran |-> FALSE, s |-> dstr, parsed |-> Thrown(NoThrow)]

\* a call of parse_digits(s)
CallParseDigits ==
    /\ ~cli.ran
    /\ \E outcome \in parse_digits(cli.s) :
           cli' = [cli EXCEPT !.ran = TRUE, !.parsed = outcome]
    /\ UNCHANGED <<pc, entry, evVars, engVars, fmt, pool, ckpt, tracker>>

NextParse == CallParseDigits

SpecParse == InitParse /\ [][NextParse]_vars

(***************************************************************************)
(* main.  cli holds the argument vector, the locals of main, what has been *)
(* written to stdout, to stderr (one tag per message) and to the output    *)
(* file, and the exit code.  An argument is a non-empty string.            *)
(***************************************************************************)
MaxArgs == 4

ArgTokens == {"-n", "-o", "-b", "-t", "-q", "-T", "-p", "-V", "-h",
              "0", "2", "abc", "hex"}

OptionNames == <<"-n", "-o", "-b", "-t", "-q", "-T", "-p", "-V", "-h">>

OptionLetters == <<"n", "o", "b", "t", "q", "T", "p", "V", "h">>

\* the characters of an argument
ArgChars(tok) ==
    CASE tok = "0" -> <<"0">>
      [] tok = "2" -> <<"2">>
      [] tok = "abc" -> <<"a", "b", "c">>
      [] tok = "hex" -> <<"h", "e", "x">>
      [] OTHER -> <<"-", OptionLetters[CHOOSE oi \in 1..9 : OptionNames[oi] = tok]>>

NotExited == -1

\* lines 69-75: the locals before the first argument is read
CliStart(args) ==
    [ran |-> TRUE, argv |-> args, i |-> 1, pos |-> "parse",
     digits |-> 0, out |-> "", base |-> 10, threads |-> 1,
     quiet |-> FALSE, do_selftest |-> FALSE, show_progress |-> FALSE,
     selftest_digits |-> 0, pi |-> <<>>, f |-> "closed",
     stdout |-> <<>>, stderr |-> <<>>, file |-> <<>>, code |-> NotExited]

InitCli ==
    /\ pc = "idle" /\ entry = "none"
    /\ a0 = 0 /\ b0 = 0 /\ num_threads = 1 /\ prog = NullProgress
    /\ ticks = <<>> /\ visited = <<>> /\ stack = <<>> /\ ret = <<>>
    /\ result = NoTriplet /\ chunk_start = 0 /\ chunk_size = 0
    /\ EngIdle /\ FmtIdle
    /\ pool = [ran |-> FALSE] /\ ckpt = [ran |-> FALSE] /\ tracker = [ran |-> FALSE]
    /\ \E argc \in 0..MaxArgs : \E av \in [1..argc -> ArgTokens] : cli = CliStart(av)

\* a return of main with a message on stderr
CliReturn(c, tag, status) ==
    [c EXCEPT !.stderr = Append(@, tag), !.code = status, !.pos = "exit"]

\* lines 209-212: the handler of std::exception
CliCatch(c) == CliReturn(c, "Error", 2)

\* the loop is at argv[i]
AtArg == cli.pos = "parse" /\ cli.i <= Len(cli.argv)

\* i + 1 < argc
HasValue == cli.i + 1 <= Len(cli.argv)

OtherUnchanged == UNCHANGED <<pc, entry, evVars, engVars, fmt, pool, ckpt, tracker>>

\* lines 80-81
ArgDigits ==
    /\ AtArg /\ cli.argv[cli.i] \in {"--digits", "-n"} /\ HasValue
    /\ \E outcome \in parse_digits(ArgChars(cli.argv[cli.i + 1])) :
           cli' = IF outcome.thrown # NoThrow THEN CliCatch(cli)
                  ELSE [cli EXCEPT !.digits = NatToInt(outcome.value), !.i = @ + 2]
    /\ OtherUnchanged

\* lines 82-83
ArgOut ==
    /\ AtArg /\ cli.argv[cli.i] \in {"--out", "-o"} /\ HasValue
    /\ cli' = [cli EXCEPT !.out = cli.argv[cli.i + 1], !.i = @ + 2]
    /\ OtherUnchanged

\* lines 84-93
ArgBase ==
    /\ AtArg /\ cli.argv[cli.i] \in {"--base", "-b"} /\ HasValue
    /\ cli' = IF cli.argv[cli.i + 1] \in {"dec", "decimal"}
              THEN [cli EXCEPT !.base = 10, !.i = @ + 2]
              ELSE IF cli.argv[cli.i + 1] \in {"hex", "hexadecimal"}
              THEN [cli EXCEPT !.base = 16, !.i = @ + 2]
              ELSE CliReturn(cli, "Invalid base", 1)
    /\ OtherUnchanged

\* lines 94-99
ArgThreads ==
    /\ AtArg /\ cli.argv[cli.i] \in {"--threads", "-t"} /\ HasValue
    /\ cli' = IF stoi(ArgChars(cli.argv[cli.i + 1])).thrown # NoThrow
              THEN CliCatch(cli)
              ELSE IF stoi(ArgChars(cli.argv[cli.i + 1])).value < 1
              THEN CliReturn([cli EXCEPT !.threads =
                                  stoi(ArgChars(cli.argv[cli.i + 1])).value],
                             "Invalid thread count", 1)
              ELSE [cli EXCEPT !.threads = stoi(ArgChars(cli.argv[cli.i + 1])).value,
                               !.i = @ + 2]
    /\ OtherUnchanged

\* lines 100-101
ArgQuiet ==
    /\ AtArg /\ cli.argv[cli.i] \in {"--quiet", "-q"}
    /\ cli' = [cli EXCEPT !.quiet = TRUE, !.i = @ + 1]
    /\ OtherUnchanged

\* lines 102-103
ArgSelfTest ==
    /\ AtArg /\ cli.argv[cli.i] \in {"--self-test", "-T"}
    /\ cli' = [cli EXCEPT !.do_selftest = TRUE, !.i = @ + 1]
    /\ OtherUnchanged

\* lines 104-105
ArgProgress ==
    /\ AtArg /\ cli.argv[cli.i] \in {"--progress", "-p"}
    /\ cli' = [cli EXCEPT !.show_progress = TRUE, !.i = @ + 1]
    /\ OtherUnchanged

\* lines 106-108
ArgVersion ==
    /\ AtArg /\ cli.argv[cli.i] \in {"--version", "-V"}
    /\ cli' = CliReturn(cli, "version", 0)
    /\ OtherUnchanged

\* lines 109-111
ArgHelp ==
    /\ AtArg /\ cli.argv[cli.i] \in {"--help", "-h", "help"}
    /\ cli' = CliReturn(CliReturn(cli, "banner", 0), "usage", 0)
    /\ OtherUnchanged

\* lines 112-115: no branch above was taken
ArgUnknown ==
    /\ AtArg
    /\ ~(cli.argv[cli.i] \in {"-n", "--digits", "-o", "--out", "-b", "--base",
                              "-t", "--threads"} /\ HasValue)
    /\ cli.argv[cli.i] \notin {"--quiet", "-q", "--self-test", "-T", "--progress", "-p",
                               "--version", "-V", "--help", "-h", "help"}
    /\ cli' = CliReturn(cli, "Unknown option", 1)
    /\ OtherUnchanged

\* the arguments are read
Parsed == cli.pos = "parse" /\ cli.i > Len(cli.argv)

\* the banner and the line after it, unless --quiet
Banner(c, tag) == IF c.quiet THEN <<>> ELSE <<"banner", tag>>

\* the default size in place of the digit count
SelfTestDigits_default(c) == 1000

\* line 121: k = digits ? digits : 1000
SelfTestDigits(c) == IF c.digits # 0 THEN c.digits ELSE 1000

\* lines 120-131.  self_test(k) is the function of SpecSelfTest; main uses
\* its return value and its verdict, both outcomes are taken here
SelfTestMode ==
    /\ Parsed /\ cli.do_selftest
    /\ \E ok \in BOOLEAN :
           cli' = [cli EXCEPT
                      !.selftest_digits = SelfTestDigits(cli),
                      !.stderr = @ \o Banner(cli, "Running self-test")
                                   \o <<IF ok THEN "Self-test: OK" ELSE "Self-test: FAIL">>,
                      !.code = IF ok THEN 0 ELSE 3,
                      !.pos = "exit"]
    /\ OtherUnchanged

\* lines 134-138
MissingDigits ==
    /\ Parsed /\ ~cli.do_selftest /\ cli.digits = 0
    /\ cli' = CliReturn(cli, "Missing required option", 1)
    /\ OtherUnchanged

\* the bars the tick of lines 159-175 draws for count calls: the last call
\* always draws, an earlier one when 50 ms have passed since the last bar
Bars(shown) == [bq \in 1..shown |-> "bar"]

\* lines 143-183: the request and the computation
ComputeMode ==
    /\ Parsed /\ ~cli.do_selftest /\ cli.digits # 0
    /\ \E drawn \in 1..TermCount(cli.digits) :
           cli' = [cli EXCEPT
                      !.stderr = @ \o Banner(cli, "Request")
                                   \o (IF ~cli.quiet /\ cli.threads > 1
                                       THEN <<"Threads">> ELSE <<>>)
                                   \o (IF cli.show_progress /\ ~cli.quiet
                                       THEN Bars(drawn) ELSE <<>>),
                      !.pi = Engine(cli.digits, cli.base),
                      !.pos = "output"]
    /\ OtherUnchanged

\* lines 198-206
Timing(c) ==
    IF c.quiet THEN <<>>
    ELSE (IF c.out # "" THEN <<"Wrote">> ELSE <<>>) \o <<"Elapsed", "Performance">>

\* line 187: std::cout << pi << std::endl
ToStdout(c) == [c EXCEPT !.stdout = @ \o c.pi \o <<"\n">>]

\* the digits to the file and to stdout as well
ToFile_and_stdout(c) == [c EXCEPT !.file = @ \o c.pi \o <<"\n">>, !.f = "open",
                                  !.stdout = @ \o c.pi \o <<"\n">>]

\* line 191: f << pi << "\n"
ToFile(c) == [c EXCEPT !.file = @ \o c.pi \o <<"\n">>, !.f = "open"]

\* the digits go to stdout when the file cannot be opened
CannotOpen_to_stdout(c) ==
    [c EXCEPT !.f = "failed", !.stdout = @ \o c.pi \o <<"\n">>, !.code = 0, !.pos = "exit"]

\* line 190: if (!f) throw std::runtime_error, caught at line 209
CannotOpen(c) == CliCatch([c EXCEPT !.f = "failed"])

\* lines 195-208: the logs and the return
Logged(c) == [c EXCEPT !.stderr = @ \o Timing(c), !.code = 0, !.pos = "exit"]

\* lines 185-208: the digits go to stdout or to the file, which may fail
\* to open
WriteOutput ==
    /\ cli.pos = "output"
    /\ \E opened \in BOOLEAN :
           cli' = IF cli.out = "" THEN Logged(ToStdout(cli))
                  ELSE IF ~opened THEN CannotOpen(cli)
                  ELSE Logged(ToFile(cli))
    /\ OtherUnchanged

NextCli ==
    \/ ArgDigits
    \/ ArgOut
    \/ ArgBase
    \/ ArgThreads
    \/ ArgQuiet
    \/ ArgSelfTest
    \/ ArgProgress
    \/ ArgVersion
    \/ ArgHelp
    \/ ArgUnknown
    \/ SelfTestMode
    \/ MissingDigits
    \/ ComputeMode
    \/ WriteOutput

SpecCli == InitCli /\ [][NextCli]_vars

(***************************************************************************)
(* ThreadPool.  One thread owns the pool: it submits tasks, calls wait_all *)
(* and destroys the pool; the workers run worker_function.  Each critical  *)
(* section under queue_mutex is one step, a task runs outside the lock.    *)
(***************************************************************************)
MaxPoolWorkers == 2
MaxPoolTasks == 2

NoTask == 0

InitPool ==
    /\ pc = "idle" /\ entry = "none"
    /\ a0 = 0 /\ b0 = 0 /\ num_threads = 1 /\ prog = NullProgress
    /\ ticks = <<>> /\ visited = <<>> /\ stack = <<>> /\ ret = <<>>
    /\ result = NoTriplet /\ chunk_start = 0 /\ chunk_size = 0
    /\ EngIdle /\ FmtIdle
    /\ cli = [ran |-> FALSE] /\ ckpt = [ran |-> FALSE] /\ tracker = [ran |-> FALSE]
    /\ \E wcount \in 0..MaxPoolWorkers :
           pool = [ran |-> TRUE, stop |-> FALSE, tasks |-> <<>>,
                   worker |-> [wi \in 1..wcount |-> [pos |-> "wait", task |-> NoTask]],
                   submitted |-> 0, refused |-> 0, finished |-> {},
                   throws |-> <<>>, future |-> <<>>, got |-> <<>>,
                   taken |-> <<>>, executed |-> <<>>,
                   caller |-> "idle", before |-> {}]

PoolUnchanged == UNCHANGED <<pc, entry, evVars, engVars, fmt, cli, ckpt, tracker>>

\* the owner is outside wait_all and the destructor
OwnerFree == pool.caller \in {"idle", "returned"}

\* the threads that can call submit: the owner of the pool, and any other
\* holder of a reference while the pool is alive (a running task, a second
\* thread)
Submitters == (IF OwnerFree THEN {"owner"} ELSE {})
                  \cup (IF pool.caller # "destroyed" THEN {"other"} ELSE {})

\* submit: under the lock the call throws on a stopped pool, the task is
\* queued otherwise and one worker is notified; the task, when run, throws
\* or returns
Submit ==
    /\ IF pool.stop THEN pool.refused < MaxPoolTasks ELSE pool.submitted < MaxPoolTasks
    /\ \E by \in Submitters, failing \in BOOLEAN :
           pool' = IF pool.stop
                   THEN [pool EXCEPT !.refused = @ + 1]
                   ELSE [pool EXCEPT !.submitted = @ + 1,
                                     !.tasks = Append(@, pool.submitted + 1),
                                     !.throws = Append(@, failing),
                                     !.future = Append(@, "pending"),
                                     !.got = Append(@, "none"),
                                     !.caller = IF by = "owner" THEN "idle" ELSE @]
    /\ PoolUnchanged

\* a worker_function that copies the front task and leaves it in the queue
WorkerTake_no_pop(w) ==
    /\ pool.worker[w].pos = "wait" /\ pool.tasks # <<>>
    /\ Len(pool.taken) < MaxPoolTasks + 1
    /\ pool' = [pool EXCEPT !.worker[w] = [pos |-> "run", task |-> Head(pool.tasks)],
                            !.taken = Append(@, [task |-> Head(pool.tasks), by |-> w])]
    /\ PoolUnchanged

\* worker_function: the wait is over with a task in the queue; the task is
\* moved out of the queue under the lock
WorkerTake(w) ==
    /\ pool.worker[w].pos = "wait" /\ pool.tasks # <<>>
    /\ pool' = [pool EXCEPT !.worker[w] = [pos |-> "run", task |-> Head(pool.tasks)],
                            !.tasks = Tail(@),
                            !.taken = Append(@, [task |-> Head(pool.tasks), by |-> w])]
    /\ PoolUnchanged

\* a worker_function whose thread ends on the exception of a task
WorkerRun_uncaught(w) ==
    /\ pool.worker[w].pos = "run"
    /\ pool' = IF pool.throws[pool.worker[w].task]
               THEN [pool EXCEPT !.executed = Append(@, [task |-> pool.worker[w].task, by |-> w]),
                                 !.worker[w] = [pos |-> "exited", task |-> NoTask]]
               ELSE [pool EXCEPT !.finished = @ \cup {pool.worker[w].task},
                                 !.executed = Append(@, [task |-> pool.worker[w].task, by |-> w]),
                                 !.future[pool.worker[w].task] = "value",
                                 !.worker[w] = [pos |-> "wait", task |-> NoTask]]
    /\ PoolUnchanged

\* worker_function: task() outside the lock, then the next round; the task
\* is the packaged_task of submit, which stores the value or the exception
\* of the callable in the shared state of the future
WorkerRun(w) ==
    /\ pool.worker[w].pos = "run"
    /\ pool' = [pool EXCEPT !.finished = @ \cup {pool.worker[w].task},
                            !.executed = Append(@, [task |-> pool.worker[w].task, by |-> w]),
                            !.future[pool.worker[w].task] =
                                IF pool.throws[pool.worker[w].task] THEN "exception"
                                ELSE "value",
                            !.worker[w] = [pos |-> "wait", task |-> NoTask]]
    /\ PoolUnchanged

\* future::get on a ready future: the value, or the stored exception
\* rethrown
FutureGet ==
    /\ \E ft \in 1..pool.submitted :
           /\ pool.future[ft] # "pending" /\ pool.got[ft] = "none"
           /\ pool' = [pool EXCEPT !.got[ft] = IF pool.future[ft] = "exception"
                                               THEN "rethrown" ELSE "value"]
    /\ PoolUnchanged

\* a worker_function that returns as soon as stop is set
WorkerExit_on_stop(w) ==
    /\ pool.worker[w].pos = "wait" /\ pool.stop
    /\ pool' = [pool EXCEPT !.worker[w].pos = "exited"]
    /\ PoolUnchanged

\* worker_function: stop is set and the queue is empty
WorkerExit(w) ==
    /\ pool.worker[w].pos = "wait" /\ pool.stop /\ pool.tasks = <<>>
    /\ pool' = [pool EXCEPT !.worker[w].pos = "exited"]
    /\ PoolUnchanged

\* the owner enters wait_all; before is what it has submitted so far
WaitAllCall ==
    /\ OwnerFree /\ pool.submitted > 0
    /\ pool' = [pool EXCEPT !.caller = "wait_all", !.before = 1..pool.submitted]
    /\ PoolUnchanged

\* one round of the loop of wait_all: break on an empty queue, yield
\* otherwise
WaitAllRound ==
    /\ pool.caller = "wait_all"
    /\ pool' = IF pool.tasks = <<>> THEN [pool EXCEPT !.caller = "returned"] ELSE pool
    /\ PoolUnchanged

\* the destructor: stop under the lock, notify_all
Destroy ==
    /\ OwnerFree /\ ~pool.stop
    /\ pool' = [pool EXCEPT !.stop = TRUE, !.caller = "joining"]
    /\ PoolUnchanged

\* the destructor: every worker is joined
Joined ==
    /\ pool.caller = "joining"
    /\ \A wi \in DOMAIN pool.worker : pool.worker[wi].pos = "exited"
    /\ pool' = [pool EXCEPT !.caller = "destroyed"]
    /\ PoolUnchanged

NextPool ==
    \/ Submit
    \/ \E wi \in DOMAIN pool.worker : WorkerTake(wi)
    \/ \E wi \in DOMAIN pool.worker : WorkerRun(wi)
    \/ \E wi \in DOMAIN pool.worker : WorkerExit(wi)
    \/ FutureGet
    \/ WaitAllCall
    \/ WaitAllRound
    \/ Destroy
    \/ Joined

SpecPool == InitPool /\ [][NextPool]_vars

(***************************************************************************)
(* The checkpoint file.  The file is the map from the keys save_checkpoint *)
(* writes to the text written after each key; std::hash is taken to have   *)
(* no collisions: a checksum is its input.  The time stamp is a number of  *)
(* seconds, written in UTC and read back as local time.                    *)
(***************************************************************************)
MaxCkptStr == 1

CkptChars == {"a", "\"", "\\", "\n"}

CkptStrings == UNION {[1..sl -> CkptChars] : sl \in 0..MaxCkptStr}

CkptNumbers == {1, 12}

ZoneOffsets == {0, 3600}

\* operator<< of an unsigned number
RECURSIVE DecimalText(_)
DecimalText(n) ==
    IF n < 10 THEN <<DecDigits[n + 1]>>
    ELSE Append(DecimalText(n \div 10), DecDigits[(n % 10) + 1])

\* escape_json_string, character by character
EscapeChar(c) ==
    CASE c = "\"" -> <<"\\", "\"">>
      [] c = "\\" -> <<"\\", "\\">>
      [] c = "\n" -> <<"\\", "n">>
      [] OTHER -> <<c>>

RECURSIVE escape_json_string(_)
escape_json_string(str) ==
    IF str = <<>> THEN <<>>
    ELSE EscapeChar(Head(str)) \o escape_json_string(Tail(str))

\* extract_value on a quoted value: the text up to the next double quote
RECURSIVE ExtractQuoted(_)
ExtractQuoted(text) ==
    IF text = <<>> \/ Head(text) = "\"" THEN <<>>
    ELSE <<Head(text)>> \o ExtractQuoted(Tail(text))

simple_hash(input) == [hash |-> input]

\* lines 55-61
generate_checksum(d) ==
    simple_hash(DecimalText(d.digits) \o <<"|">> \o DecimalText(d.base) \o <<"|">>
                \o DecimalText(d.num_threads) \o <<"|">>
                \o DecimalText(d.completed_terms) \o <<"|">>
                \o DecimalText(d.total_terms) \o <<"|">>
                \o d.partial_result \o <<"|">> \o d.algorithm_name)

CheckpointFields == {"digits", "base", "threads", "completed_terms", "total_terms",
                     "algorithm", "timestamp", "partial_result"}

NumberFields == {"digits", "base", "threads", "completed_terms", "total_terms"}

\* lines 72-84: what save_checkpoint writes
SavedFile(d) ==
    [digits |-> DecimalText(d.digits), base |-> DecimalText(d.base),
     threads |-> DecimalText(d.num_threads),
     completed_terms |-> DecimalText(d.completed_terms),
     total_terms |-> DecimalText(d.total_terms),
     algorithm |-> escape_json_string(d.algorithm_name),
     timestamp |-> [utc |-> d.timestamp],
     checksum |-> generate_checksum(d),
     partial_result |-> escape_json_string(d.partial_result)]

NoFile == [exists |-> FALSE]

\* load_checkpoint returned false after assigning the first count fields
Refused(count) == [loaded |-> FALSE, assigned |-> count]

NoData == Refused(0)

\* lines 126-134: the assignments of load_checkpoint, which throw on a
\* number that does not parse
Loadable(f) ==
    /\ stoull(f.digits).thrown = NoThrow
    /\ stoi(f.base).thrown = NoThrow
    /\ stoi(f.threads).thrown = NoThrow
    /\ stoull(f.completed_terms).thrown = NoThrow
    /\ stoull(f.total_terms).thrown = NoThrow

LoadedData(f, zone) ==
    [loaded |-> TRUE,
     digits |-> NatToInt(stoull(f.digits).value), base |-> stoi(f.base).value,
     num_threads |-> stoi(f.threads).value,
     completed_terms |-> NatToInt(stoull(f.completed_terms).value),
     total_terms |-> NatToInt(stoull(f.total_terms).value),
     algorithm_name |-> ExtractQuoted(f.algorithm),
     timestamp |-> f.timestamp.utc - zone,
     checksum |-> f.checksum,
     partial_result |-> ExtractQuoted(f.partial_result)]

\* the fields assigned when a conversion of lines 126-130 throws
AssignedBeforeThrow(f) ==
    IF stoull(f.digits).thrown # NoThrow THEN 0
    ELSE IF stoi(f.base).thrown # NoThrow THEN 1
    ELSE IF stoi(f.threads).thrown # NoThrow THEN 2
    ELSE IF stoull(f.completed_terms).thrown # NoThrow THEN 3
    ELSE 4

\* load_checkpoint(filename, data): the data handed back, if any
load_checkpoint(file, zone) ==
    IF ~file.exists THEN NoData
    ELSE IF ~Loadable(file.text) THEN Refused(AssignedBeforeThrow(file.text))
    ELSE LoadedData(file.text, zone)

NoInfo == [returned |-> FALSE]

\* lines 198-208
get_checkpoint_info(file, zone) ==
    IF ~load_checkpoint(file, zone).loaded THEN NoInfo
    ELSE [returned |-> TRUE, digits |-> load_checkpoint(file, zone).digits,
          base |-> load_checkpoint(file, zone).base,
          threads |-> load_checkpoint(file, zone).num_threads]

\* lines 144-157
is_valid_checkpoint(file, zone) ==
    /\ load_checkpoint(file, zone).loaded
    /\ generate_checksum(load_checkpoint(file, zone)) = load_checkpoint(file, zone).checksum

InitCheckpoint ==
    /\ pc = "idle" /\ entry = "none"
    /\ a0 = 0 /\ b0 = 0 /\ num_threads = 1 /\ prog = NullProgress
    /\ ticks = <<>> /\ visited = <<>> /\ stack = <<>> /\ ret = <<>>
    /\ result = NoTriplet /\ chunk_start = 0 /\ chunk_size = 0
    /\ EngIdle /\ FmtIdle
    /\ cli = [ran |-> FALSE] /\ pool = [ran |-> FALSE] /\ tracker = [ran |-> FALSE]
    /\ \E cdigits \in CkptNumbers, cres \in CkptStrings, calg \in CkptStrings,
          czone \in ZoneOffsets :
           ckpt = [ran |-> TRUE, pos |-> "start", zone |-> czone,
                   data |-> [digits |-> cdigits, base |-> 10, num_threads |-> 1,
                             completed_terms |-> 1, total_terms |-> TermCount(cdigits),
                             partial_result |-> cres, algorithm_name |-> calg,
                             timestamp |-> 7200],
                   file |-> NoFile, edited |-> "none", valid |-> FALSE,
                   d2 |-> NoData, info |-> NoInfo]

CkptUnchanged == UNCHANGED <<pc, entry, evVars, engVars, fmt, cli, pool, tracker>>

\* save_checkpoint(filename, data); the file may fail to open
SaveCheckpoint ==
    /\ ckpt.pos = "start"
    /\ \E opened \in BOOLEAN :
           ckpt' = IF opened
                   THEN [ckpt EXCEPT !.pos = "saved",
                                     !.file = [exists |-> TRUE, text |-> SavedFile(ckpt.data)]]
                   ELSE [ckpt EXCEPT !.pos = "failed"]
    /\ CkptUnchanged

\* the texts an editor of the file puts in place of a value
EditTexts(field) ==
    IF field \in NumberFields THEN {DecimalText(en) : en \in {1, 7, 12}} \cup {<<"a">>}
    ELSE IF field = "timestamp" THEN {[utc |-> 0], [utc |-> 7200]}
    ELSE {escape_json_string(es) : es \in CkptStrings}

\* the saved file is edited in one field, outside the program
EditField ==
    /\ ckpt.pos = "saved" /\ ckpt.edited = "none"
    /\ \E ef \in CheckpointFields :
           \E et \in EditTexts(ef) :
               /\ et # ckpt.file.text[ef]
               /\ ckpt' = [ckpt EXCEPT !.file.text[ef] = et, !.edited = ef]
    /\ CkptUnchanged

\* is_valid_checkpoint(filename)
IsValidCheckpoint ==
    /\ ckpt.pos = "saved"
    /\ ckpt' = [ckpt EXCEPT !.pos = "checked",
                            !.valid = is_valid_checkpoint(ckpt.file, ckpt.zone)]
    /\ CkptUnchanged

\* load_checkpoint(filename, d2)
LoadCheckpoint ==
    /\ ckpt.pos = "saved"
    /\ ckpt' = [ckpt EXCEPT !.pos = "loaded",
                            !.d2 = load_checkpoint(ckpt.file, ckpt.zone)]
    /\ CkptUnchanged

\* get_checkpoint_info(filename, digits, base, threads)
GetCheckpointInfo ==
    /\ ckpt.pos = "saved"
    /\ ckpt' = [ckpt EXCEPT !.pos = "info",
                            !.info = get_checkpoint_info(ckpt.file, ckpt.zone)]
    /\ CkptUnchanged

NextCheckpoint ==
    \/ SaveCheckpoint
    \/ EditField
    \/ IsValidCheckpoint
    \/ LoadCheckpoint
    \/ GetCheckpointInfo

SpecCheckpoint == InitCheckpoint /\ [][NextCheckpoint]_vars

(***************************************************************************)
(* ProgressTracker.  A callback is what it does when it is called: it      *)
(* returns or it throws.  A member function is followed from its first     *)
(* statement; the calls it makes on the callbacks are recorded in call     *)
(* order, and escaped says that an exception left the function.            *)
(***************************************************************************)
MaxCallbacks == 2
MaxTrackerOps == 3

TrackerValues == {0, 1, 2}

\* the static update_counter of update_performance_metrics, modulo 100
UpdateCounters == {0, 99}

Callbacks == UNION {[1..cn -> [throws : BOOLEAN]] : cn \in 0..MaxCallbacks}

\* ProgressEvent(type, message, current_, total_, additional_data)
ProgressEvent(type, message, current, total) ==
    [type |-> type, message |-> message, current_value |-> current, total_value |-> total]

LogLine(level, message) == [level |-> level, message |-> message]

\* the callbacks of a list are called up to the first one that throws, whose
\* exception leaves the function
NotifyUncaught(callbacks, item) ==
    LET throwers == {ci \in 1..Len(callbacks) : callbacks[ci].throws}
        reached  == IF throwers = {} THEN Len(callbacks)
                    ELSE CHOOSE ci \in throwers : \A ct \in throwers : ci <= ct
    IN  [calls |-> [ci \in 1..reached |-> [cb |-> ci, item |-> item]],
         escaped |-> throwers # {}]

\* every callback of the list is called in the order of the list, inside
\* try { } catch (...) { }
Notify(callbacks, item) ==
    [calls |-> [ci \in 1..Len(callbacks) |-> [cb |-> ci, item |-> item]],
     escaped |-> FALSE]

notify_progress_callbacks_uncaught(callbacks, event) == NotifyUncaught(callbacks, event)

notify_progress_callbacks(callbacks, event) == Notify(callbacks, event)

notify_log_callbacks(callbacks, level, message) ==
    Notify(callbacks, LogLine(level, message))

\* a member function entered on the tracker t
Run(t) == [t |-> t, pcalls |-> <<>>, lcalls |-> <<>>, escaped |-> FALSE]

\* log_info, log_performance: one call of notify_log_callbacks; nothing
\* after an exception that left an earlier call
Log(r, level, message) ==
    IF r.escaped THEN r
    ELSE LET notified == notify_log_callbacks(r.t.log_callbacks, level, message)
         IN  [r EXCEPT !.lcalls = @ \o notified.calls, !.escaped = notified.escaped]

\* report_event(type, message): the progress callbacks, then log_info with
\* "[" + type + "] " + message
report_event(r, type, message) ==
    IF r.escaped THEN r
    ELSE LET notified == notify_progress_callbacks(
                             r.t.progress_callbacks,
                             ProgressEvent(type, message, r.t.current, r.t.total))
         IN  Log([r EXCEPT !.pcalls = @ \o notified.calls, !.escaped = notified.escaped],
                 "INFO", <<type, message>>)

\* set_total(total)
set_total(r, total) ==
    report_event([r EXCEPT !.t.total = total, !.t.current = 0],
                 "STARTED", "Computation started")

\* get_estimated_time_remaining() != seconds::max(), elapsed being the
\* whole seconds since start_time_
EtaKnown(t, elapsed) == t.current # 0 /\ t.total # 0 /\ elapsed # 0

\* update_performance_metrics(): every 100th call logs the rate and, when
\* it is known, the time remaining
update_performance_metrics(r, elapsed) ==
    LET counted == [r EXCEPT !.t.update_counter = (@ + 1) % 100]
        rated   == Log(counted, "PERFORMANCE", "Terms per second")
    IN  IF counted.t.update_counter # 0 THEN counted
        ELSE IF EtaKnown(r.t, elapsed) THEN Log(rated, "PERFORMANCE", "ETA")
        ELSE rated

\* update(current, message)
update(r, current, message, elapsed) ==
    LET measured == update_performance_metrics([r EXCEPT !.t.current = current], elapsed)
    IN  IF message # "" /\ ~measured.escaped
        THEN report_event(measured, "TERM_COMPLETED", message)
        ELSE measured

\* increment(amount, message)
increment(r, amount, message, elapsed) == update(r, r.t.current + amount, message, elapsed)

NoCall == [op |-> "none", value |-> 0, message |-> "", elapsed |-> 0, type |-> ""]

\* a default-constructed tracker with callbacks added
InitTracker ==
    /\ pc = "idle" /\ entry = "none"
    /\ a0 = 0 /\ b0 = 0 /\ num_threads = 1 /\ prog = NullProgress
    /\ ticks = <<>> /\ visited = <<>> /\ stack = <<>> /\ ret = <<>>
    /\ result = NoTriplet /\ chunk_start = 0 /\ chunk_size = 0
    /\ EngIdle /\ FmtIdle
    /\ cli = [ran |-> FALSE] /\ pool = [ran |-> FALSE] /\ ckpt = [ran |-> FALSE]
    /\ \E pcbs \in Callbacks, lcbs \in Callbacks, counter \in UpdateCounters :
           tracker = [ran |-> TRUE, ops |-> 0, last |-> NoCall,
                      t |-> [total |-> 0, current |-> 0, update_counter |-> counter,
                             progress_callbacks |-> pcbs, log_callbacks |-> lcbs],
                      pcalls |-> <<>>, lcalls |-> <<>>, escaped |-> FALSE]

TrackerUnchanged == UNCHANGED <<pc, entry, evVars, engVars, fmt, cli, pool, ckpt>>

\* the tracker when the member function has returned, or an exception has
\* left it
Called(r, call) ==
    [ran |-> TRUE, ops |-> tracker.ops + 1, last |-> call, t |-> r.t,
     pcalls |-> r.pcalls, lcalls |-> r.lcalls, escaped |-> r.escaped]

\* add_progress_callback(callback)
AddProgressCallback ==
    /\ tracker.ops < MaxTrackerOps
    /\ Len(tracker.t.progress_callbacks) < MaxCallbacks
    /\ \E failing \in BOOLEAN :
           tracker' = Called([Run(tracker.t) EXCEPT
                                  !.t.progress_callbacks = Append(@, [throws |-> failing])],
                             [NoCall EXCEPT !.op = "add_progress_callback"])
    /\ TrackerUnchanged

\* add_log_callback(callback)
AddLogCallback ==
    /\ tracker.ops < MaxTrackerOps
    /\ Len(tracker.t.log_callbacks) < MaxCallbacks
    /\ \E failing \in BOOLEAN :
           tracker' = Called([Run(tracker.t) EXCEPT
                                  !.t.log_callbacks = Append(@, [throws |-> failing])],
                             [NoCall EXCEPT !.op = "add_log_callback"])
    /\ TrackerUnchanged

SetTotal ==
    /\ tracker.ops < MaxTrackerOps
    /\ \E tv \in TrackerValues :
           tracker' = Called(set_total(Run(tracker.t), tv),
                             [NoCall EXCEPT !.op = "set_total", !.value = tv])
    /\ TrackerUnchanged

Update ==
    /\ tracker.ops < MaxTrackerOps
    /\ \E tv \in TrackerValues, tm \in {"", "term"}, secs \in {0, 1} :
           tracker' = Called(update(Run(tracker.t), tv, tm, secs),
                             [NoCall EXCEPT !.op = "update", !.value = tv, !.message = tm,
                                            !.elapsed = secs])
    /\ TrackerUnchanged

Increment ==
    /\ tracker.ops < MaxTrackerOps
    /\ \E tm \in {"", "term"}, secs \in {0, 1} :
           tracker' = Called(increment(Run(tracker.t), 1, tm, secs),
                             [NoCall EXCEPT !.op = "increment", !.value = 1, !.message = tm,
                                            !.elapsed = secs])
    /\ TrackerUnchanged

ReportEvent ==
    /\ tracker.ops < MaxTrackerOps
    /\ \E et \in {"COMPLETED", "ERROR_OCCURRED"} :
           tracker' = Called(report_event(Run(tracker.t), et, "event"),
                             [NoCall EXCEPT !.op = "report_event", !.type = et,
                                            !.message = "event"])
    /\ TrackerUnchanged

NextTracker ==
    \/ AddProgressCallback
    \/ AddLogCallback
    \/ SetTotal
    \/ Update
    \/ Increment
    \/ ReportEvent

SpecTracker == InitTracker /\ [][NextTracker]_vars

\* the output of scenario 4 of the specification
Pi50 == <<
    "3", ".", "1", "4", "1", "5", "9", "2", "6", "5", "3", "5", "8",
    "9", "7", "9", "3", "2", "3", "8", "4", "6", "2", "6", "4", "3",
    "3", "8", "3", "2", "7", "9", "5", "0", "2", "8", "8", "4", "1",
    "9", "7", "1", "6", "9", "3", "9", "9", "3", "7", "5", "1", "0">>
(***************************************************************************)
(* Properties of the evaluator.                                            *)
(***************************************************************************)
SeqDone == pc = "done" /\ entry = "bsplit_chudnovsky"
ParDone == pc = "done" /\ entry = "bsplit_chudnovsky_parallel"

\* C1: for every range a < b and every worker count W > 1 the triplet
\* returned by bsplit_chudnovsky_parallel(a, b, W) is bit-identical to the
\* one returned by the sequential bsplit_chudnovsky(a, b).
C1_ParallelEqualsSequential ==
    (ParDone /\ num_threads > 1) => ret[1] = bsplit_chudnovsky(a0, b0)

\* the literals of the term leaf, as limbs: 13591409, 545140134 and
\* 10939058860032000
LitA == <<409, 591, 13>>
LitB == <<134, 140, 545>>
LitC3_24 == <<0, 32, 860, 58, 939, 10>>

\* C6: the leaf for index k is (1, 1, A) when k = 0 and, for k >= 1, has
\* P_k = (6k-5)(2k-1)(6k-1), Q_k = k^3 * C3_24 and T_k = P_k * (A + B*k)
\* negated exactly when k is odd, with A = 13591409, B = 545140134 and
\* C3_24 = 10939058860032000.
C6_LeafFormula ==
    (SeqDone /\ b0 - a0 = 1) =>
        LET tr == ret[1]
            kk == a0
            Pk == (6 * kk - 5) * (2 * kk - 1) * (6 * kk - 1)
        IN  IF kk = 0
            THEN tr = [P |-> [neg |-> FALSE, mag |-> <<1>>],
                      Q |-> [neg |-> FALSE, mag |-> <<1>>],
                      T |-> [neg |-> FALSE, mag |-> LitA]]
            ELSE /\ ~tr.P.neg /\ NatToInt(tr.P.mag) = Pk
                 /\ ~tr.Q.neg
                 /\ NatDivModSmall(tr.Q.mag, kk * kk * kk) = [q |-> LitC3_24, r |-> 0]
                 /\ tr.T.neg = (kk % 2 = 1)
                 /\ NatDivModSmall(tr.T.mag, Pk)
                        = [q |-> NatAdd(LitA, NatMulSmall(LitB, kk)), r |-> 0]

C6_Witness == SeqDone /\ b0 - a0 = 1 /\ a0 = 3 /\ ret[1].T.neg

RECURSIVE FoldLeaves(_, _)
FoldLeaves(a, b) ==
    IF b - a = 1 THEN leaf(a) ELSE Merge(FoldLeaves(a, b - 1), leaf(b - 1))

\* C7: the merge is associative, so the result does not depend on the split
\* point: for every a < m < b, bsplit_chudnovsky(a, b) equals the merge of
\* bsplit_chudnovsky(a, m) and bsplit_chudnovsky(m, b), and equals the
\* left-to-right fold of the leaves a, ..., b-1.
C7_SplitIndependence ==
    SeqDone =>
        /\ \A mid \in (a0 + 1)..(b0 - 1) :
              ret[1] = Merge(bsplit_chudnovsky(a0, mid), bsplit_chudnovsky(mid, b0))
        /\ ret[1] = FoldLeaves(a0, b0)
        /\ \A m1 \in (a0 + 1)..(b0 - 1) : \A m2 \in (m1 + 1)..(b0 - 1) :
              LET t1 == bsplit_chudnovsky(a0, m1)
                  t2 == bsplit_chudnovsky(m1, m2)
                  t3 == bsplit_chudnovsky(m2, b0)
              IN  Merge(Merge(t1, t2), t3) = Merge(t1, Merge(t2, t3))

C7_Witness == SeqDone /\ b0 - a0 >= 4 /\ prog.present

\* C8: every triplet the evaluator produces, at a leaf or at a merged node,
\* has P > 0 and Q > 0; only T may be negative.
C8_PQPositive ==
    /\ ret # <<>> => ZSgn(ret[1].P) = 1 /\ ZSgn(ret[1].Q) = 1
    /\ \A fr \in 1..Len(stack) :
          stack[fr].st = "right" => ZSgn(stack[fr].L.P) = 1 /\ ZSgn(stack[fr].L.Q) = 1

C8_Witness ==
    /\ Len(stack) >= 2 /\ stack[1].st = "right" /\ ZSgn(stack[1].L.T) = -1
    /\ ret # <<>> /\ ZSgn(ret[1].T) = 1

(***************************************************************************)
(* Properties of the engine, the formatter and the self-test.              *)
(***************************************************************************)
\* C2: prefix invariance: for all digit counts N1 < N2 in the same base,
\* the first N1 + 2 characters of engine(N2) equal engine(N1), the engine
\* formatting the computed value with N + 2 significant digits, rounded to
\* nearest, and cutting the fractional part to N characters.
C2_PrefixInvariance ==
    (pc = "done" /\ entry \in {"compute_pi", "compute_pi_base"}) =>
        \A n1 \in 1..(digits - 1) : SubSeq(out, 1, n1 + 2) = Engine(n1, base)

\* the positions of the point in the returned string
DotPositions == {dotp \in 1..Len(fmt.out) : fmt.out[dotp] = "."}

\* C3: for every formatter input (sign, mantissa of length L >= 1 without
\* a point, exponent of any sign) and every digit count N >= 0, the string
\* returned by mpfr_to_fixed_decimal contains exactly one point and exactly
\* N characters after it, in all three branches, the integer branch with
\* its trailing point being padded with N zeros.
C3_ExactlyNDecimals ==
    fmt.ran =>
        /\ Cardinality(DotPositions) = 1
        /\ \A dotp \in DotPositions : Len(fmt.out) - dotp = fmt.digits

C3_Witness ==
    /\ fmt.ran /\ fmt.neg /\ fmt.expo = 3 /\ Len(fmt.mant) = 2 /\ fmt.digits = 2
    /\ fmt.out = <<"-">> \o fmt.mant \o <<"0", ".", "0", "0">>

\* C4: for all N >= 1 and base in {10, 16} the engine output has length
\* exactly N + 2: the single integer digit 3, one point, and N fractional
\* characters.
C4_OutputLength ==
    (pc = "done" /\ entry # "none" /\ digits >= 1) =>
        /\ Len(out) = digits + 2
        /\ out[1] = "3"
        /\ out[2] = "."
        /\ \A oq \in 3..Len(out) : out[oq] # "."

C4_Witness ==
    /\ pc = "done" /\ entry = "compute_pi_base_threaded" /\ num_threads = 1
    /\ base = 16 /\ digits = 12 /\ Len(out) = 14

\* C5: the engine output equals the reference digits of pi: for N = 10,
\* 100 and 1000 self_test(N) returns true, compute_pi(N) being identical
\* to the formatter applied to the reference pi at the same precision, and
\* compute_pi(50) is the 50-digit string of the specification.
C5_SelfTest ==
    (pc = "done" /\ entry = "self_test") =>
        /\ digits \in {10, 100, 1000} => st.ok /\ st.got = st.expected
        /\ digits = 50 => st.got = Pi50

C5_Witness ==
    /\ pc = "done" /\ entry = "self_test" /\ digits = 1000
    /\ st.ok /\ Len(st.got) = 1002 /\ st.message = <<"OK">>

\* the computations that go through the sequential evaluator with a
\* Progress
SequentialWithProgress ==
    /\ prog.present
    /\ \/ entry \in {"compute_pi_with_progress", "compute_pi_base_with_progress"}
       \/ entry = "compute_pi_base_threaded_with_progress" /\ num_threads = 1

\* C9: in the sequential evaluator with a progress sink over [0, n) the
\* sink is called exactly once per leaf, the leaves are visited in
\* increasing index order, the i-th call carries done = i and total = n, so
\* that the last call has done = total; the counter is reset to 0 and total
\* set to n before each computation.
C9_ProgressTicks ==
    SequentialWithProgress =>
        /\ prog.total = TermCount(digits)
        /\ prog.done = Len(visited)
        /\ \A vi \in 1..Len(visited) : visited[vi] = vi - 1
        /\ Len(visited) <= TermCount(digits)
        /\ pc \in {"evaluated", "done"} => Len(visited) = TermCount(digits)
        /\ prog.tick =>
              /\ Len(ticks) = Len(visited)
              /\ \A ti \in 1..Len(ticks) :
                    ticks[ti] = [done |-> ti, total |-> TermCount(digits)]
        /\ ~prog.tick => ticks = <<>>

C9_Witness ==
    /\ SequentialWithProgress /\ pc = "done" /\ base = 16
    /\ visited = <<0, 1, 2>>
    /\ ticks = <<[done |-> 1, total |-> 3], [done |-> 2, total |-> 3],
                 [done |-> 3, total |-> 3]>>

\* ceil(N * log2(b)): the number of bits of b^N - 1
CeilLog2Pow(b, count) == NatBitLen(NatSub(NatPow(b, count), <<1>>))

\* floor(N * log2(b)): one less than the number of bits of b^N
FloorLog2Pow(b, count) == NatBitLen(NatPow(b, count)) - 1

\* C10 as stated: for every N >= 1 and base b in {10, 16} the planned
\* precision P satisfies P >= ceil(N * log2(b)) + guard_bits, with
\* guard_bits = 64.
C10_PrecisionCeil ==
    (entry # "none" /\ digits >= 1) => prec_bits >= CeilLog2Pow(base, digits) + 64

\* C10, amended: for every N >= 1 and base b in {10, 16} the planned
\* precision P satisfies P >= floor(N * log2(b)) + guard_bits, with
\* guard_bits = 64.
C10_PrecisionFloor ==
    (entry # "none" /\ digits >= 1) => prec_bits >= FloorLog2Pow(base, digits) + 64

C10_Witness ==
    /\ entry = "compute_pi" /\ digits = 1 /\ base = 10
    /\ prec_bits = 67 /\ CeilLog2Pow(10, 1) = 4

\* floor(N * log2_b) + 64 with log2_b = 3.32192809488736 for b = 10 (the
\* constant scaled by 10^15) and 4.0 for b = 16
PlannedPrec(count, b) ==
    IF b = 16 THEN 4 * count + 64
    ELSE NatToInt(HighLimbs(NatMulSmall(<<360, 887, 94, 928, 321, 3>>, count), 6)) + 64

\* ceil(N / 14.181647462725477) + 1, by long division
PlannedTerms(count) ==
    LET quot == NatDivMod(Shift(NatFromInt(count), 5), digits_per_term)
    IN  NatToInt(quot.q) + (IF quot.r = <<>> THEN 0 ELSE 1) + 1

\* C11: for every N >= 1 and base b in {10, 16} the planner computes the
\* term count n = ceil(N / 14.181647462725477) + 1 and the precision
\* P = floor(N * log2_b) + 64; the sequential, progress and threaded entry
\* points evaluate [0, n) at P, and self_test plans the same P and
\* compares against the engine run with this (P, n).
C11_PlannerFormula ==
    (entry # "none" /\ digits >= 1 /\ base \in {10, 16}) =>
        /\ prec_bits = PlannedPrec(digits, base)
        /\ entry # "self_test" =>
              /\ a0 = 0 /\ b0 = PlannedTerms(digits)
              /\ prog.present => prog.total = PlannedTerms(digits)
        /\ (entry = "self_test" /\ pc \in {"st_got", "done"}) =>
              st.got = Output(bsplit_chudnovsky(0, PlannedTerms(digits)), digits, 10,
                              PlannedPrec(digits, 10))

C11_Witness ==
    /\ entry = "compute_pi_base_threaded_with_progress" /\ num_threads = 2
    /\ base = 16 /\ digits = 15 /\ prec_bits = 124 /\ b0 = 3 /\ pc = "done"

\* C12: compute_pi_base(N, base) fails with an InvalidBase error for every
\* base outside {10, 16}: it never returns a digit string for such a base.
C12_InvalidBase ==
    (entry \in {"compute_pi_base", "compute_pi_base_with_progress"}
         /\ digits >= 1 /\ base \notin {10, 16}) =>
        pc # "done" /\ out = <<>>

\* the calls the reporting bsplit_impl makes on prog->tick over a range of
\* count terms, the counter starting at 0
SequentialTicks(count) ==
    IF prog.present /\ prog.tick
    THEN [tq \in 1..count |-> [done |-> tq, total |-> prog.total]]
    ELSE <<>>

\* C13: with W = 1 the parallel entry point is equivalent to the sequential
\* one: compute_pi_base_threaded(N, base, 1) returns the string of
\* compute_pi_base(N, base), and bsplit_chudnovsky_parallel(a, b, 1, prog)
\* returns the triplet of bsplit_chudnovsky(a, b, prog) and makes the same
\* sequence of calls on the sink.
C13_OneWorkerSequential ==
    /\ (pc = "done" /\ num_threads = 1
            /\ entry \in {"compute_pi_base_threaded",
                           "compute_pi_base_threaded_with_progress"}) =>
           out = Engine(digits, base)
    /\ (pc = "done" /\ entry = "compute_pi_base") => out = Engine(digits, base)
    /\ (pc = "done" /\ num_threads = 1
            /\ entry \in {"bsplit_chudnovsky", "bsplit_chudnovsky_parallel"}) =>
           /\ ret = <<bsplit_chudnovsky(a0, b0)>>
           /\ ticks = SequentialTicks(b0 - a0)

C13_Witness ==
    /\ pc = "done" /\ entry = "bsplit_chudnovsky_parallel" /\ num_threads = 1
    /\ prog.tick /\ a0 = 1 /\ b0 = 4 /\ Len(ticks) = 3 /\ ret[1].P.mag # <<1>>

\* C14: self_test returns true exactly when the two strings are identical;
\* on a mismatch the verdict names the index i such that the strings agree
\* below i and differ at i, or i is the length of the shorter string when
\* one string is a proper prefix of the other.
C14_Verdict ==
    (entry = "self_test" /\ pc = "done") =>
        /\ st.ok <=> (st.got = st.expected)
        /\ ~st.ok =>
              /\ Len(st.message) = 2 /\ st.message[1] = "Mismatch"
              /\ st.message[2] \in 0..Len(st.got)
              /\ st.message[2] \in 0..Len(st.expected)
              /\ SubSeq(st.got, 1, st.message[2]) = SubSeq(st.expected, 1, st.message[2])
              /\ \/ /\ st.message[2] < Len(st.got)
                    /\ st.message[2] < Len(st.expected)
                    /\ st.got[st.message[2] + 1] # st.expected[st.message[2] + 1]
                 \/ /\ Len(st.got) # Len(st.expected)
                    /\ st.message[2] \in {Len(st.got), Len(st.expected)}

C14_Witness ==
    /\ entry = "self_test" /\ pc = "done" /\ ~st.ok
    /\ st.got = <<"3", ".", "3">> /\ st.expected = <<"3", ".", "1">>
    /\ st.message = <<"Mismatch", 2>>

\* C18: parse_digits guarantees a digit count of at least 1: it returns a
\* value >= 1 or throws, and never returns 0.
C18_ParseDigitsPositive ==
    (cli.ran /\ cli.parsed.thrown = NoThrow) => cli.parsed.value # <<>>

\* parse_digits throws on the argument
Unparseable(tok) == \A outcome \in parse_digits(ArgChars(tok)) : outcome.thrown # NoThrow

\* main is at an argument error: an unparseable N, a base that is neither
\* dec nor hex, an unparseable W or W < 1, or N = 0 in compute mode
AtArgumentError ==
    \/ /\ AtArg /\ HasValue /\ cli.argv[cli.i] \in {"--digits", "-n"}
       /\ Unparseable(cli.argv[cli.i + 1])
    \/ /\ AtArg /\ HasValue /\ cli.argv[cli.i] \in {"--base", "-b"}
       /\ cli.argv[cli.i + 1] \notin {"dec", "decimal", "hex", "hexadecimal"}
    \/ /\ AtArg /\ HasValue /\ cli.argv[cli.i] \in {"--threads", "-t"}
       /\ \/ stoi(ArgChars(cli.argv[cli.i + 1])).thrown # NoThrow
          \/ stoi(ArgChars(cli.argv[cli.i + 1])).value < 1
    \/ Parsed /\ ~cli.do_selftest /\ cli.digits = 0

\* C15: every argument error (N = 0, an unparseable N, a base not in
\* {dec, hex}, a thread count W < 1 or an unparseable W) makes main exit
\* with code 1, never 0, 2 or 3, with a reason on stderr, and no digits are
\* written.
C15_ArgumentErrors ==
    [][AtArgumentError =>
          /\ cli'.code = 1
          /\ Len(cli'.stderr) > Len(cli.stderr)
          /\ cli'.stdout = <<>> /\ cli'.file = <<>>]_vars

\* main has returned from the self-test branch
SelfTested == cli.ran /\ cli.pos = "exit" /\ cli.do_selftest /\ cli.i > Len(cli.argv)

Succeeded ==
    /\ cli.ran /\ cli.pos = "exit" /\ cli.code = 0
    /\ ~cli.do_selftest /\ cli.i > Len(cli.argv)

\* the messages of main
LogTags == {"banner", "Request", "Threads", "bar", "Wrote", "Elapsed", "Performance"}

C19_WaitAllCompletes ==
    (pool.ran /\ pool.caller = "returned") => pool.before \subseteq pool.finished

\* C20: the checkpoint checksum covers every other field: editing any
\* single one of digits, base, threads, completed_terms, total_terms,
\* partial_result, algorithm or timestamp in a saved checkpoint makes
\* is_valid_checkpoint return false.
C20_ChecksumCoversFields ==
    (ckpt.ran /\ ckpt.pos = "checked" /\ ckpt.edited # "none") => ~ckpt.valid

\* the stored checksum differs from the one recomputed from the other fields
ChecksumMismatch ==
    /\ Loadable(ckpt.file.text)
    /\ generate_checksum(LoadedData(ckpt.file.text, ckpt.zone)) # ckpt.file.text.checksum

\* C21: a checkpoint whose stored checksum does not match the checksum
\* recomputed from its other fields is rejected: load_checkpoint and
\* get_checkpoint_info return false and hand no data to the caller.
C21_MismatchRejected ==
    /\ (ckpt.ran /\ ckpt.pos = "loaded" /\ ChecksumMismatch) => ~ckpt.d2.loaded
    /\ (ckpt.ran /\ ckpt.pos = "info" /\ ChecksumMismatch) => ~ckpt.info.returned

\* C22: checkpoint round trip: save_checkpoint(f, d) followed by
\* load_checkpoint(f, d2) succeeds with d2 equal to d on digits, base,
\* threads, completed_terms, total_terms, algorithm and partial_result, and
\* is_valid_checkpoint(f) is true, also when partial_result or algorithm
\* holds a double quote, a backslash or a newline.
C22_RoundTrip ==
    /\ (ckpt.ran /\ ckpt.pos = "loaded" /\ ckpt.edited = "none") =>
           /\ ckpt.d2.loaded
           /\ ckpt.d2.digits = ckpt.data.digits
           /\ ckpt.d2.base = ckpt.data.base
           /\ ckpt.d2.num_threads = ckpt.data.num_threads
           /\ ckpt.d2.completed_terms = ckpt.data.completed_terms
           /\ ckpt.d2.total_terms = ckpt.data.total_terms
           /\ ckpt.d2.algorithm_name = ckpt.data.algorithm_name
           /\ ckpt.d2.partial_result = ckpt.data.partial_result
    /\ (ckpt.ran /\ ckpt.pos = "checked" /\ ckpt.edited = "none") => ckpt.valid

\* the destructor has returned
Destroyed == pool.ran /\ pool.caller = "destroyed"

\* C23: when the ThreadPool destructor returns, every worker thread has
\* exited and, for a pool with at least one worker, every task that was
\* enqueued before destruction began has been executed; a worker exits only
\* when stop is set and the queue is empty.
C23_NoOrphanNoDrop ==
    /\ Destroyed =>
           /\ \A wi \in DOMAIN pool.worker : pool.worker[wi].pos = "exited"
           /\ DOMAIN pool.worker # {} =>
                  /\ pool.tasks = <<>>
                  /\ pool.finished = 1..pool.submitted
    /\ pool.ran =>
           \A wi \in DOMAIN pool.worker :
               pool.worker[wi].pos = "exited" => pool.stop /\ pool.tasks = <<>>

C23_Witness ==
    /\ Destroyed /\ Len(pool.worker) = 2 /\ pool.finished = {1, 2}
    /\ pool.executed = <<[task |-> 2, by |-> 2], [task |-> 1, by |-> 1]>>

\* the futures agree with what the tasks did
FuturesSettled ==
    \A ft \in 1..pool.submitted :
        /\ pool.future[ft] = "exception" <=> (ft \in pool.finished /\ pool.throws[ft])
        /\ pool.future[ft] = "value" <=> (ft \in pool.finished /\ ~pool.throws[ft])
        /\ pool.got[ft] = "rethrown" => pool.throws[ft]
        /\ pool.got[ft] = "value" => ~pool.throws[ft]

\* a step changes the future of the task that was run and no other, and
\* the worker that ran a task is waiting for the next one
OneFuturePerRun ==
    \A ft \in 1..pool.submitted :
        pool'.future[ft] # pool.future[ft] =>
            /\ pool.future[ft] = "pending"
            /\ \A fs \in 1..pool.submitted : fs # ft => pool'.future[fs] = pool.future[fs]
            /\ \E wi \in DOMAIN pool.worker :
                   /\ pool.worker[wi] = [pos |-> "run", task |-> ft]
                   /\ pool'.worker[wi] = [pos |-> "wait", task |-> NoTask]

\* C27: an exception thrown by a submitted task is captured in the future
\* of that task and rethrown to the caller that reads the future; it does
\* not terminate the worker that ran the task, which goes on to take
\* further tasks, and it does not affect the futures of sibling tasks.
C27_ExceptionInFuture ==
    /\ [](pool.ran =>
             /\ FuturesSettled
             /\ \A wi \in DOMAIN pool.worker :
                    pool.worker[wi].pos = "exited" => pool.stop)
    /\ [][pool.ran => OneFuturePerRun]_vars

C27_Witness ==
    /\ pool.ran /\ pool.throws = <<TRUE, FALSE>>
    /\ pool.executed = <<[task |-> 1, by |-> 1], [task |-> 2, by |-> 1]>>
    /\ pool.got = <<"rethrown", "value">> /\ ~pool.stop

\* the queue and the tasks taken from it are the submitted tasks in the
\* order of submission, each once
QueueFifo ==
    /\ \A qi \in 1..Len(pool.taken) : pool.taken[qi].task = qi
    /\ pool.tasks = [qi \in 1..(pool.submitted - Len(pool.taken)) |-> Len(pool.taken) + qi]
    /\ \A wi \in DOMAIN pool.worker :
           pool.worker[wi].pos = "run" =>
               /\ pool.worker[wi].task \in 1..Len(pool.taken)
               /\ pool.taken[pool.worker[wi].task].by = wi
               /\ pool.worker[wi].task \notin pool.finished

\* every execution is that of a task taken from the queue, by the worker
\* that took it, and no task is executed twice
ExecutedOnce ==
    /\ \A xi \in 1..Len(pool.executed) :
           /\ pool.executed[xi].task \in 1..Len(pool.taken)
           /\ pool.taken[pool.executed[xi].task] = pool.executed[xi]
    /\ \A xi \in 1..Len(pool.executed) : \A xj \in 1..Len(pool.executed) :
           pool.executed[xi].task = pool.executed[xj].task => xi = xj

\* a call of submit on a stopped pool queues nothing, and is the only call
\* that throws
StoppedSubmitThrows ==
    /\ pool.stop => pool'.submitted = pool.submitted /\ Len(pool'.tasks) <= Len(pool.tasks)
    /\ pool'.refused # pool.refused => pool.stop /\ pool'.tasks = pool.tasks

\* C28: under every interleaving of the workers and the submitting callers
\* each task accepted by submit is removed from the queue exactly once and
\* executed by exactly one worker, tasks leave the queue in the order of
\* submission, and submit on a stopped pool throws without enqueuing
\* anything.
C28_ExactlyOnceFifo ==
    /\ [](pool.ran => QueueFifo /\ ExecutedOnce)
    /\ [][pool.ran => StoppedSubmitThrows]_vars

C28_Witness ==
    /\ pool.ran /\ pool.refused = 1 /\ pool.caller = "joining"
    /\ pool.taken = <<[task |-> 1, by |-> 2], [task |-> 2, by |-> 1]>>
    /\ pool.executed = <<[task |-> 2, by |-> 1], [task |-> 1, by |-> 2]>>

\* ceil(log2(count)) for count >= 1
RECURSIVE CeilLog2(_)
CeilLog2(count) == IF count <= 1 THEN 0 ELSE 1 + CeilLog2((count + 1) \div 2)

\* the depth of the calls of bsplit_impl below the call on [a, b)
RECURSIVE Depth(_, _)
Depth(a, b) ==
    IF b - a = 1 THEN 0
    ELSE 1 + Max(Depth(a, (a + b) \div 2), Depth((a + b) \div 2, b))

\* the frames of the evaluator: non-empty ranges, halved at the floor
\* midpoint, no deeper than ceil(log2) of the outermost range
FramesHalved ==
    \A fr \in 1..Len(stack) :
        /\ stack[fr].a < stack[fr].b
        /\ stack[fr].st # "call" =>
               /\ stack[fr].a < (stack[fr].a + stack[fr].b) \div 2
               /\ (stack[fr].a + stack[fr].b) \div 2 < stack[fr].b
               /\ fr < Len(stack) =>
                      /\ stack[fr + 1].a = (IF stack[fr].st = "left" THEN stack[fr].a
                                            ELSE (stack[fr].a + stack[fr].b) \div 2)
                      /\ stack[fr + 1].b = (IF stack[fr].st = "left"
                                            THEN (stack[fr].a + stack[fr].b) \div 2
                                            ELSE stack[fr].b)
        /\ fr - 1 <= CeilLog2(stack[1].b - stack[1].a)

\* the leaves evaluated so far by bsplit_chudnovsky(a0, b0, prog): a0, a0 + 1,
\* ... in this order, all of [a0, b0) when the call has returned
LeavesOnce ==
    /\ Len(visited) <= b0 - a0
    /\ \A vi \in 1..Len(visited) : visited[vi] = a0 + vi - 1
    /\ pc \in {"evaluated", "done"} => Len(visited) = b0 - a0

\* the evaluation is sequential: the entry point was not given W > 1
SequentialEntry ==
    /\ entry # "none"
    /\ entry \in {"bsplit_chudnovsky_parallel", "compute_pi_base_threaded",
                  "compute_pi_base_threaded_with_progress"} => num_threads = 1

\* the steps a call of bsplit_impl on count terms takes: one per leaf,
\* three per internal range
Work(count) == 4 * count - 3

\* the steps left to the frame fr: its own, and those of the calls it has
\* yet to make
FrameWork(frame) ==
    CASE frame.st = "call" -> Work(frame.b - frame.a)
      [] frame.st = "left" -> 2 + Work(frame.b - (frame.a + frame.b) \div 2)
      [] OTHER -> 1

RECURSIVE StackWork(_)
StackWork(frames) ==
    IF frames = <<>> THEN 0 ELSE FrameWork(Head(frames)) + StackWork(Tail(frames))

\* the evaluator can take a step: the frame on top is entered, or the call
\* it made has returned
CanStep == stack # <<>> /\ (Top.st = "call" \/ ret # <<>>)

\* C24: for every 0 <= a < b the sequential evaluator terminates: every
\* internal range has a floor midpoint m with a < m < b, each index of
\* [a, b) is evaluated as a leaf exactly once, and the depth of the
\* recursion is ceil(log2(b - a)); the planner yields n >= 1 for every N, so
\* the root range [0, n) satisfies a < b.  Termination: the evaluator can
\* always step, and each step takes one from the finite count of the steps
\* left, which is 0 exactly when the outermost call has returned.
C24_SequentialTerminates ==
    /\ [](/\ FramesHalved
          /\ entry # "none" => a0 < b0 /\ Depth(a0, b0) = CeilLog2(b0 - a0)
          /\ (SequentialEntry /\ (stack # <<>> \/ visited # <<>>)) => LeavesOnce
          /\ TermCount(digits) >= 1
          /\ (SequentialEntry /\ pc = "seq") => CanStep
          /\ (SequentialEntry /\ pc # "seq") => stack = <<>>)
    /\ [][(SequentialEntry /\ pc = "seq") =>
              /\ StackWork(stack) <= Work(b0 - a0)
              /\ StackWork(stack') = StackWork(stack) - 1]_vars

C24_Witness ==
    /\ entry = "bsplit_chudnovsky" /\ a0 = 0 /\ b0 = 5 /\ pc = "seq"
    /\ Len(stack) = 4 /\ Top.a = 3 /\ Top.b = 4 /\ visited = <<0, 1, 2>>

\* the characters of the returned string after the sign and the integer
\* digits and the point
FracPart == SubSeq(fmt.out, (IF fmt.neg THEN 1 ELSE 0) + fmt.expo + 2, Len(fmt.out))

\* C25: in the branch expo > 0 and L > expo of the formatter the
\* fractional part is mantissa[expo .. min(L, expo + N)): no index >= L is
\* read, also when expo + N > L, and the fractional characters emitted are
\* an unmodified prefix of the mantissa digits after position expo: a
\* truncation, with no rounding at digit N.
C25_FractionClamped ==
    (fmt.ran /\ fmt.expo > 0 /\ Len(fmt.mant) > fmt.expo) =>
        LET taken == FracIndices(Len(fmt.mant), fmt.expo, fmt.digits)
        IN  /\ \A fi \in taken : fi < Len(fmt.mant)
            /\ Cardinality(taken) = Min(Len(fmt.mant) - fmt.expo, fmt.digits)
            /\ SubSeq(fmt.out, 1, (IF fmt.neg THEN 1 ELSE 0) + fmt.expo + 1)
                   = (IF fmt.neg THEN <<"-">> ELSE <<>>)
                         \o SubSeq(fmt.mant, 1, fmt.expo) \o <<".">>
            /\ Len(FracPart) = fmt.digits
            /\ \A fq \in 1..fmt.digits :
                   FracPart[fq] = IF fmt.expo + fq - 1 \in taken
                                  THEN fmt.mant[fmt.expo + fq] ELSE "0"

C25_Witness ==
    /\ fmt.ran /\ fmt.mant = <<"7", "0", "7">> /\ fmt.expo = 1 /\ fmt.digits = 3
    /\ ~fmt.neg /\ fmt.out = <<"7", ".", "0", "7", "0">>

\* C26: if the output file given with --out cannot be opened, main exits
\* with code 2 with the error on stderr, and no digits are written to
\* stdout or to any file: no partial result is emitted.
C26_OutputOpenFailure ==
    (cli.ran /\ cli.f = "failed") =>
        /\ cli.pos = "exit" /\ cli.code = 2
        /\ cli.out # ""
        /\ cli.stderr # <<>> /\ cli.stderr[Len(cli.stderr)] = "Error"
        /\ cli.stdout = <<>> /\ cli.file = <<>>

C26_Witness ==
    /\ cli.ran /\ cli.f = "failed" /\ cli.argv = <<"-o", "abc", "-n", "2">>
    /\ cli.pi = <<"3", ".", "1", "4">> /\ cli.code = 2
    /\ cli.stderr = <<"banner", "Request", "Error">>

\* the chunk loop is running, or has returned
ChunkedEntry ==
    /\ entry \in {"bsplit_chudnovsky_parallel", "compute_pi_base_threaded",
                  "compute_pi_base_threaded_with_progress"}
    /\ num_threads > 1

\* the chunks started so far are [a0, a0 + c), [a0 + c, a0 + 2c), ... with
\* c the chunk size, the last one cut at b0; the one being evaluated starts
\* at chunk_start
ChunksInOrder ==
    /\ chunk_size = Max(1, (b0 - a0) \div num_threads)
    /\ chunk_start >= a0 /\ (chunk_start - a0) % chunk_size = 0
    /\ chunk_start < b0 + chunk_size
    /\ stack # <<>> =>
           /\ stack[1].a = chunk_start
           /\ stack[1].b = Min(chunk_start + chunk_size, b0)
           /\ stack[1].a < stack[1].b
    /\ (stack = <<>> /\ ret = <<>>) => Len(visited) = Min(chunk_start, b0) - a0
    /\ (stack = <<>> /\ ret # <<>> /\ pc = "par") =>
           Len(visited) = Min(chunk_start + chunk_size, b0) - a0

\* every index of [a0, b0) is a leaf once, in ascending order, and the sink
\* has one tick per leaf; total is what the caller of the loop has set: the
\* engine sets it to the number of terms
TicksPerLeaf ==
    /\ Len(visited) <= b0 - a0
    /\ \A vi \in 1..Len(visited) : visited[vi] = a0 + vi - 1
    /\ prog.present => prog.done = Len(visited)
    /\ (prog.present /\ prog.tick) =>
           /\ Len(ticks) = Len(visited)
           /\ \A ti \in 1..Len(ticks) : ticks[ti].done = ti
    /\ pc \in {"evaluated", "done"} =>
           /\ Len(visited) = b0 - a0
           /\ (prog.present /\ prog.total = b0 - a0) => prog.done = prog.total
    /\ (prog.present /\ entry # "bsplit_chudnovsky_parallel") => prog.total = b0 - a0

\* what is left of the chunk at chunk_start: the call, the steps of the
\* evaluator, the combination
ChunkWork ==
    IF stack # <<>> THEN 1 + StackWork(stack)
    ELSE IF ret # <<>> THEN 1
    ELSE IF chunk_start < b0 THEN 2 + Work(Min(chunk_start + chunk_size, b0) - chunk_start)
    ELSE 0

\* a step of the loop goes to the next chunk, or takes one from what is
\* left of the current chunk, or leaves the loop
LoopAdvances ==
    \/ chunk_start' > chunk_start /\ chunk_start < b0
    \/ chunk_start' = chunk_start /\ pc' = "par" /\ ChunkWork' < ChunkWork
    \/ pc' # "par" /\ chunk_start >= b0 /\ stack = <<>>

\* C29: for every a < b and every W > 1, also W > b - a where the chunk
\* size is clamped to 1, the chunk loop of bsplit_chudnovsky_parallel
\* terminates and its chunks are non-empty, contiguous, ascending and cover
\* [a, b) exactly once, so that a supplied progress sink receives exactly
\* b - a ticks and ends with done = total.
C29_ChunkLoop ==
    /\ [](ChunkedEntry =>
             /\ ChunksInOrder
             /\ TicksPerLeaf
             /\ (pc = "par" /\ stack # <<>>) => CanStep)
    /\ [][(ChunkedEntry /\ pc = "par") => LoopAdvances]_vars

C29_Witness ==
    /\ entry = "compute_pi_base_threaded_with_progress" /\ pc = "evaluated"
    /\ a0 = 0 /\ b0 = 2 /\ num_threads = 3 /\ chunk_size = 1 /\ chunk_start = 2
    /\ visited = <<0, 1>> /\ prog.done = 2 /\ prog.total = 2
    /\ ticks = <<[done |-> 1, total |-> 2], [done |-> 2, total |-> 2]>>

\* the tracker with the same callbacks, none of which throws
Quiet(t) ==
    [t EXCEPT !.progress_callbacks = [ci \in DOMAIN @ |-> [throws |-> FALSE]],
              !.log_callbacks = [ci \in DOMAIN @ |-> [throws |-> FALSE]]]

\* the call recorded in call, made on the tracker t
Replay(t, call) ==
    CASE call.op = "set_total" -> set_total(Run(t), call.value)
      [] call.op = "update" -> update(Run(t), call.value, call.message, call.elapsed)
      [] call.op = "increment" -> increment(Run(t), call.value, call.message, call.elapsed)
      [] call.op = "report_event" -> report_event(Run(t), call.type, call.message)
      [] OTHER -> Run(t)

\* the events the last call reports
EventsOfCall ==
    CASE tracker.last.op = "set_total" ->
             <<ProgressEvent("STARTED", "Computation started", 0, tracker.last.value)>>
      [] tracker.last.op \in {"update", "increment"} /\ tracker.last.message # "" ->
             <<ProgressEvent("TERM_COMPLETED", tracker.last.message,
                             tracker.t.current, tracker.t.total)>>
      [] tracker.last.op = "report_event" ->
             <<ProgressEvent(tracker.last.type, tracker.last.message,
                             tracker.t.current, tracker.t.total)>>
      [] OTHER -> <<>>

\* the lines the last call logs: the performance of every 100th update,
\* then the event
LogsOfCall ==
    (IF tracker.last.op \in {"update", "increment"} /\ tracker.t.update_counter = 0
     THEN <<LogLine("PERFORMANCE", "Terms per second")>>
              \o (IF EtaKnown(tracker.t, tracker.last.elapsed)
                  THEN <<LogLine("PERFORMANCE", "ETA")>> ELSE <<>>)
     ELSE <<>>)
        \o [ev \in 1..Len(EventsOfCall) |->
               LogLine("INFO", <<EventsOfCall[ev].type, EventsOfCall[ev].message>>)]

\* calls holds, for each item in turn, one call of each of the count
\* callbacks in the order of registration
EachOnceInOrder(calls, items, count) ==
    /\ Len(calls) = Len(items) * count
    /\ \A ck \in 1..Len(calls) :
           /\ calls[ck].cb = ((ck - 1) % count) + 1
           /\ calls[ck].item = items[((ck - 1) \div count) + 1]

\* C30: in ProgressTracker a progress or log callback that throws is
\* isolated: for every event every other registered callback is still
\* invoked once, in the order of registration, the exception does not
\* propagate to the caller of update or report_event, and the current and
\* total of the tracker are what they are when no callback throws.
C30_CallbackIsolation ==
    /\ [](tracker.ran =>
             /\ ~tracker.escaped
             /\ EachOnceInOrder(tracker.pcalls, EventsOfCall,
                                Len(tracker.t.progress_callbacks))
             /\ EachOnceInOrder(tracker.lcalls, LogsOfCall, Len(tracker.t.log_callbacks)))
    /\ [][tracker.ran =>
              /\ tracker'.t.current = Replay(Quiet(tracker.t), tracker'.last).t.current
              /\ tracker'.t.total = Replay(Quiet(tracker.t), tracker'.last).t.total
              /\ tracker'.t.progress_callbacks # tracker.t.progress_callbacks =>
                     tracker'.last.op = "add_progress_callback"
              /\ tracker'.t.log_callbacks # tracker.t.log_callbacks =>
                     tracker'.last.op = "add_log_callback"]_vars

C30_Witness ==
    /\ tracker.ran /\ tracker.last.op = "update" /\ tracker.last.message = "term"
    /\ tracker.t.progress_callbacks = <<[throws |-> TRUE], [throws |-> FALSE]>>
    /\ tracker.t.log_callbacks = <<[throws |-> FALSE], [throws |-> TRUE]>>
    /\ tracker.t.current = 1 /\ tracker.t.total = 2 /\ tracker.t.update_counter = 0
    /\ Len(tracker.pcalls) = 2 /\ tracker.pcalls[2].cb = 2
    /\ Len(tracker.lcalls) = 6 /\ tracker.lcalls[6].item.level = "INFO"

====
